---- MODULE Spec2Model ----
(***************************************************************************)
(* Recommendation and popularity engine of the movie catalog backend:     *)
(* the Rating / WatchHistory tables, the per-movie aggregates kept by the  *)
(* post_save / post_delete signal handlers, the recommended / popular /   *)
(* trending read actions and the caches in front of them.                 *)
(*                                                                         *)
(* Conventions: average_rating is held in hundredths (425 is 4.25), time   *)
(* in seconds, primary keys (uuids in the code) are small integers.        *)
(***************************************************************************)
EXTENDS Integers, Sequences, FiniteSets, TLC

VARIABLES
    users,      \* User table: the user ids
    staff,      \* the users whose is_staff flag is set
    genre,      \* Genre table: the genre ids
    movie,      \* Movie table: id -> [genres, average_rating, watch_count]
    rating,     \* Rating table: rows [user, movie, score, created_at]
    history,    \* WatchHistory table: rows [user, movie, watched_on]
    cache,      \* low-level cache, key recommended_movies_user_<id>: rows [user, data, expires]
    pagecache,  \* cache_page store of popular / trending: rows [view, query, body, expires]
    now,        \* the clock
    nops,       \* number of requests served so far
    resp,       \* the response of the last request served
    lastRec,    \* per user: the last recommended exchange since the user's last mutation
    inflight,   \* the handlers running step by step: worker -> its request, position and locals
    cache_up    \* whether the cache server answers; its calls raise while it does not

vars == <<users, staff, genre, movie, rating, history, cache, pagecache, now, nops, resp,
          lastRec, inflight, cache_up>>

-----------------------------------------------------------------------------
(* Bounds of the exploration *)
NumUsers == 4
NumMovies == 4
MaxOps == 3
LargeCatalog == 24
TickSeconds == 450
MaxTime == 900
MaxWorkers == 2
PlanCatalog == 30
MaxPlanOps == 3
MaxAdminOps == 3
MaxTrendingOps == 2

-----------------------------------------------------------------------------
(* Program constants *)
Budget == 20
LikedMin == 3
ScoreMin == 1
ScoreMax == 5
DefaultPageSize == 10
MaxPageSize == 50
RecommendedTtl == 600
PopularTtl == 900
TrendingTtl == 1800
DaySeconds == 86400
MinDays == 7
MaxDays == 30

-----------------------------------------------------------------------------
(* Small helpers *)
Max(a, b) == IF a >= b THEN a ELSE b
Min(a, b) == IF a <= b THEN a ELSE b
Abs(x) == IF x < 0 THEN 0 - x ELSE x

RECURSIVE SumOf(_, _)
SumOf(f, S) == IF S = {} THEN 0
               ELSE LET x == CHOOSE y \in S : TRUE IN f[x] + SumOf(f, S \ {x})

Take(s, n) == SubSeq(s, 1, Min(n, Len(s)))

-----------------------------------------------------------------------------
(* Queries on the tables *)
RatingsOfMovie(rs, m) == {r \in rs : r.movie = m}
RatingsOf(rs, u, m) == {r \in rs : r.user = u /\ r.movie = m}
HistoryOfMovie(hs, m) == {h \in hs : h.movie = m}
HistoryOf(hs, u, m) == {h \in hs : h.user = u /\ h.movie = m}
WatchedBy(hs, u) == {h.movie : h \in {x \in hs : x.user = u}}

(* The average arrives as a float: the double nearest to num / den.  a / b is
   the quotient scaled by a power of two into [1, 2). *)
RECURSIVE Normalized(_, _)
Normalized(a, b) ==
    IF a >= 2 * b THEN Normalized(a, 2 * b)
    ELSE IF a < b THEN Normalized(2 * a, b)
    ELSE <<a, b>>

(* the 52 binary places after the leading one, then the rounding of the
   rest to nearest, ties to even: -1 when the double is below the quotient,
   1 when it is above, 0 when the quotient is a double *)
RECURSIVE FloatErrorSign(_, _, _, _)
FloatErrorSign(rem, b, places, last) ==
    IF places = 0
    THEN IF rem = 0 THEN 0
         ELSE IF 2 * rem < b THEN 0 - 1
         ELSE IF 2 * rem > b THEN 1
         ELSE IF last = 0 THEN 0 - 1 ELSE 1
    ELSE IF 2 * rem >= b THEN FloatErrorSign(2 * rem - b, b, places - 1, 1)
         ELSE FloatErrorSign(2 * rem, b, places - 1, 0)

(* cuts the quotient off after two decimals instead of rounding it *)
Round2Truncating(num, den) == (num * 100) \div den

(* round(x, 2) of the float x of num / den, in hundredths.  round works on
   the exact value of the double: the nearest hundredth, and where the
   quotient lies midway between two the side the double fell on decides; a
   midpoint that is a double itself (as 1.125) goes to the even neighbour. *)
Round2(num, den) ==
    LET q == (num * 100) \div den
        r == (num * 100) % den
        n == Normalized(Abs(num), den)
        side == FloatErrorSign(n[1] - n[2], n[2], 52, 1) * (IF num < 0 THEN 0 - 1 ELSE 1)
    IN  IF 2 * r < den THEN q
        ELSE IF 2 * r > den THEN q + 1
        ELSE IF side < 0 THEN q
        ELSE IF side > 0 THEN q + 1
        ELSE IF q % 2 = 0 THEN q ELSE q + 1

(* ratings.aggregate(Avg('score'))['average'] or 0, then round(., 2) *)
AverageRating(rs, m) ==
    LET R == RatingsOfMovie(rs, m)
        score == [r \in R |-> r.score]
    IN  IF R = {} THEN 0 ELSE Round2(SumOf(score, R), Cardinality(R))

WatchCount(hs, m) == Cardinality(HistoryOfMovie(hs, m))

(* A row of the Movie table.  models.py declares the genres; the columns
   average_rating and watch_count, which the signal handlers assign, the
   serializer reads and the queries compute with, are declared nowhere in
   it, and are held here as the stored aggregates the specification
   describes: a float (in hundredths) and a non-negative count, both 0 for a
   new movie. *)
MovieRow(genres, average_rating, watch_count) ==
    [genres |-> genres, average_rating |-> average_rating, watch_count |-> watch_count]

(* 1000 * (average_rating * 0.7 + watch_count * 0.3) *)
calc_popularity_score(row) == 7 * row.average_rating + 300 * row.watch_count

-----------------------------------------------------------------------------
(* Ordering, serialization, pagination *)

(* The code orders by -popularity_score (or -trending_score) alone, so the
   database is free in the order of the rows of equal score: any order of
   them can come back, and the subquery of each genre and the outer query of
   one statement need not agree. *)
Genres == {1, 2}     \* the genres of the initial catalogs: Action and Drama

(* every sequence of the rows S that descends in key *)
RECURSIVE Orderings(_, _)
Orderings(S, key) ==
    IF S = {} THEN {<< >>}
    ELSE LET top == {x \in S : \A y \in S : key[x] >= key[y]}
         IN  UNION {{<<x>> \o rest : rest \in Orderings(S \ {x}, key)} : x \in top}

(* the row orders a query over the rows S ordered by -key can come back in.
   A row order ranks the rows D, the lower rank first among equal scores:
   the rows of S as they stand in the sequence returned, then the others. *)
RowOrders(S, key, D) ==
    LET rank(list) == [m \in D |-> IF \E i \in 1..Len(list) : list[i] = m
                                   THEN CHOOSE i \in 1..Len(list) : list[i] = m
                                   ELSE Len(list) + m]
    IN  {rank(list) : list \in Orderings(S, key)}

(* order_by('-<key>'): S as a sequence, descending in key *)
RECURSIVE OrderDesc(_, _, _)
OrderDesc(S, key, order) ==
    IF S = {} THEN << >>
    ELSE LET first == CHOOSE x \in S : \A y \in S :
                         \/ key[x] > key[y]
                         \/ key[x] = key[y] /\ order[x] <= order[y]
         IN  <<first>> \o OrderDesc(S \ {first}, key, order)

PopularityKey(mv, S) == [m \in S |-> calc_popularity_score(mv[m])]

(* MovieSerializer: the stored aggregates of the row as they are now *)
MovieSerializer(mv, m) ==
    [id |-> m, average_rating |-> mv[m].average_rating, watch_count |-> mv[m].watch_count]

SerializeMany(mv, ids) == [i \in 1..Len(ids) |-> MovieSerializer(mv, ids[i])]

(* CustomPagination.get_page_size: ?page_size=<n>, 0 standing for no parameter *)
get_page_size(ps) == IF ps > 0 THEN Min(ps, MaxPageSize) ELSE DefaultPageSize

NumPages(count, size) == (Max(1, count) + size - 1) \div size

(* Paginator.page: the page number is checked against the count the COUNT
   query returned, and the rows of the page are those the SELECT with its
   LIMIT and OFFSET returns, of the list as it is then *)
PageOf(list, count, page, ps) ==
    LET size == get_page_size(ps)
    IN  IF page < 1 \/ page > NumPages(count, size)
        THEN [ok |-> FALSE, count |-> count, results |-> << >>]
        ELSE [ok |-> TRUE, count |-> count,
              results |-> SubSeq(list, (page - 1) * size + 1,
                                 Min(Min(page * size, count), Len(list)))]

(* paginate_queryset with both queries on the same rows: the page, or
   NotFound for a page number out of range *)
paginate_queryset(list, page, ps) == PageOf(list, Len(list), page, ps)

-----------------------------------------------------------------------------
(* The recommendation algorithm *)

(* Rating.objects.filter(user=user, score__gte=3).values_list('movie') *)
LikedMovies(rs, u) == {r.movie : r \in {x \in rs : x.user = u /\ x.score >= LikedMin}}

(* liked_genres: the genres holding a liked movie, with liked_movies_count *)
liked_genres(mv, liked) == UNION {mv[m].genres : m \in liked}
liked_movies_count(mv, liked, g) == Cardinality({m \in liked : g \in mv[m].genres})

(* int(proportion * 20), without the minimum of one movie *)
NumToPickWithoutMinimum(count, total) == (count * Budget) \div total

(* max(1, int(proportion * 20)) with proportion = liked_movies_count / total *)
num_to_pick(count, total) == Max(1, (count * Budget) \div total)

(* top_movies_for_genre: the num most popular movies of the genre the user has not watched *)
top_movies_for_genre(mv, hs, u, g, num, tie) ==
    LET unwatched == {m \in DOMAIN mv : g \in mv[m].genres} \ WatchedBy(hs, u)
        top == Take(OrderDesc(unwatched, PopularityKey(mv, unwatched), tie.inner[g]), num)
    IN  {top[i] : i \in 1..Len(top)}

(* the sum of the counts of the liked genres *)
TotalOfGenreCounts(mv, rs, u) ==
    LET liked == LikedMovies(rs, u)
        G == liked_genres(mv, liked)
    IN  SumOf([g \in G |-> liked_movies_count(mv, liked, g)], G)

(* total_liked_movies = liked_movies.count() *)
total_liked_movies(mv, rs, u) == Cardinality(LikedMovies(rs, u))

(* the loop over ordered_liked_genres: for each liked genre its count, the
   total it is divided by, num_to_pick and the movies top_movies_for_genre
   selects *)
RecommendedPlan(mv, rs, hs, u, tie) ==
    LET liked == LikedMovies(rs, u)
    IN  {[genre |-> g,
          liked_movies_count |-> liked_movies_count(mv, liked, g),
          total_liked_movies |-> total_liked_movies(mv, rs, u),
          num_to_pick |-> num_to_pick(liked_movies_count(mv, liked, g),
                                      total_liked_movies(mv, rs, u)),
          picked |-> top_movies_for_genre(mv, hs, u, g,
                         num_to_pick(liked_movies_count(mv, liked, g),
                                     total_liked_movies(mv, rs, u)), tie)]
         : g \in liked_genres(mv, liked)}

(* the union of the per-genre querysets *)
RecommendedUnion(mv, rs, hs, u, tie) ==
    UNION {p.picked : p \in RecommendedPlan(mv, rs, hs, u, tie)}

(* recommended_list as the statement evaluates it: the loop has fixed the
   genres and the num_to_pick of each (num), the rows are those of the time
   of the statement *)
ListOfPicks(mv, hs, u, num, tie) ==
    LET un == UNION {top_movies_for_genre(mv, hs, u, g, num[g], tie) : g \in DOMAIN num}
    IN  Take(OrderDesc(un, PopularityKey(mv, un), tie.outer), Budget)


(* calc_popularity_score(recommended_list).order_by('-popularity_score')[:20] *)
PersonalizedList(mv, rs, hs, u, tie) ==
    LET un == RecommendedUnion(mv, rs, hs, u, tie)
    IN  Take(OrderDesc(un, PopularityKey(mv, un), tie.outer), Budget)

(* the fallback without the exclude of the watched movies *)
FallbackListWithWatched(mv, hs, u, tie) ==
    OrderDesc(DOMAIN mv, PopularityKey(mv, DOMAIN mv), tie.outer)

(* calc_popularity_score(Movie.objects).exclude(watched_by__user=user).order_by(...) *)
FallbackList(mv, hs, u, tie) ==
    LET un == DOMAIN mv \ WatchedBy(hs, u)
    IN  OrderDesc(un, PopularityKey(mv, un), tie.outer)

(* Which branch recommended takes on a cache miss.  With exactly one liked
   genre recommended_list is the sliced queryset of that genre itself
   (EmptyQuerySet | qs is qs), and order_by on a sliced queryset raises. *)
RecommendedPath(mv, rs, u) ==
    LET liked == LikedMovies(rs, u)
    IN  IF liked = {} THEN "fallback"
        ELSE IF Cardinality(liked_genres(mv, liked)) = 1 THEN "error"
        ELSE "personalized"

RecommendedList(mv, rs, hs, u, tie) ==
    IF RecommendedPath(mv, rs, u) = "fallback" THEN FallbackList(mv, hs, u, tie)
    ELSE PersonalizedList(mv, rs, hs, u, tie)

(* the row orders of a statement that lists the movies S by popularity_score *)
PopularityOrders(mv, S) ==
    {[outer |-> o, inner |-> << >>] : o \in RowOrders(S, PopularityKey(mv, S), DOMAIN mv)}

(* the row orders of the personalized statement, num the num_to_pick of each
   genre: one of the unwatched movies of each genre for its subquery
   (inner), and for each choice of these one of the movies they select for
   the outer query *)
PickOrders(mv, hs, u, num) ==
    LET G == DOMAIN num
        unwatched(g) == {m \in DOMAIN mv : g \in mv[m].genres} \ WatchedBy(hs, u)
        of(g) == RowOrders(unwatched(g), PopularityKey(mv, unwatched(g)), DOMAIN mv)
        inners == {f \in [G -> UNION {of(g) : g \in G}] : \A g \in G : f[g] \in of(g)}
        picked(f) == UNION {top_movies_for_genre(mv, hs, u, g, num[g], [inner |-> f])
                               : g \in G}
    IN  UNION {{[outer |-> o, inner |-> f]
                   : o \in RowOrders(picked(f), PopularityKey(mv, picked(f)), DOMAIN mv)}
               : f \in inners}

(* the row orders of the statement recommended runs for user u *)
RecommendedOrders(mv, rs, hs, u) ==
    LET liked == LikedMovies(rs, u)
    IN  IF liked = {} THEN PopularityOrders(mv, DOMAIN mv \ WatchedBy(hs, u))
        ELSE PickOrders(mv, hs, u,
                 [g \in liked_genres(mv, liked) |->
                     num_to_pick(liked_movies_count(mv, liked, g),
                                 total_liked_movies(mv, rs, u))])

-----------------------------------------------------------------------------
(* The low-level cache *)


(* cache.get(key): the value of an entry that has not expired *)
CacheGet(c, t, u) == {e \in c : e.user = u /\ t < e.expires}

(* cache.set(key, data, timeout) *)
CacheSet(c, t, u, data, timeout) ==
    {e \in c : e.user # u} \cup {[user |-> u, data |-> data, expires |-> t + timeout]}

(* leaves the entry in place *)
InvalidateNothing(c, u) == c

(* empties the whole cache *)
InvalidateEveryUser(c, u) == {}

(* invalidate_user_recommendation_cache: cache.delete(key) *)
invalidate_user_recommendation_cache(c, u) == {e \in c : e.user # u}

(* The calls cache.get, cache.set and cache.delete are made without a try
   block: while the cache server does not answer they raise, the entry stays
   as it is and the request ends with the status of an unhandled exception. *)
CacheDelete(c, u) == IF cache_up THEN invalidate_user_recommendation_cache(c, u) ELSE c
Raised(status) == IF cache_up THEN status ELSE 500

-----------------------------------------------------------------------------
(* Responses and the record of the last recommended exchange *)
NoItems == << >>

(* A query parameter as it arrives: absent, or the text of its value as a
   sequence of characters *)
NoParam == [given |-> FALSE, text |-> << >>]
Param(text) == [given |-> TRUE, text |-> text]

(* op, user (request.user), owner (the user of the row addressed), movie,
   days, page, page_size: the request; status, body, count, items: the
   response; path: the branch of the handler that produced it; calc: the
   values the handler computed on the way, per liked genre in recommended
   and per movie in trending *)
Response(op, a, u, m, page, ps, status, body, path, count, items) ==
    [op |-> op, user |-> a, owner |-> u, movie |-> m, days |-> NoParam,
     page |-> page, page_size |-> ps,
     status |-> status, body |-> body, path |-> path, count |-> count, items |-> items,
     calc |-> {}]

Detail(op, a, u, m, status) ==
    Response(op, a, u, m, 0, 0, status, "detail", "none", 0, NoItems)

NoCall == [state |-> "none", page |-> 0, page_size |-> 0, status |-> 0, body |-> "none",
           count |-> 0, items |-> NoItems, until |-> 0]

(* a mutation of the user's ratings or watch history happened *)
NoteMutation(u) == lastRec' = [lastRec EXCEPT ![u] = [NoCall EXCEPT !.state = "mutated"]]

-----------------------------------------------------------------------------
(* The signal handlers.  loaded is the Movie instance the handler holds
   (instance.movie); save() writes every field of it back. *)

(* recalculate_movie_average_rating, up to movie.save() *)
recalculate_movie_average_rating(loaded, rs, m) ==
    [loaded EXCEPT !.average_rating = AverageRating(rs, m)]

(* adds one to the stored count instead of counting the watch events *)
WatchCountIncremented(loaded, hs, m) ==
    [loaded EXCEPT !.watch_count = loaded.watch_count + 1]

(* recalculate_movie_watch_count, up to movie.save() *)
recalculate_movie_watch_count(loaded, hs, m) ==
    [loaded EXCEPT !.watch_count = WatchCount(hs, m)]

MovieSave(mv, m, loaded) == [mv EXCEPT ![m] = loaded]

(* a worker that serves no request, the Movie instance it holds then, and
   the response body it has prepared *)
Idle == [pc |-> "idle", op |-> "none", user |-> 0, owner |-> 0, movie |-> 0, score |-> 0,
         row |-> 0 - 1, loaded |-> MovieRow({}, 0, 0), total |-> 0, num |-> << >>,
         body |-> Detail("none", 0, 0, 0, 0)]
Workers == 1..MaxWorkers

-----------------------------------------------------------------------------
(* Initial states: a catalog and a database whose stored aggregates are the
   ones the handlers computed for its ratings and watch events *)

(* the genres of the catalog movies: movie 1 in both genres, movie 4 in none *)
GenresOfCatalog(m) ==
    CASE m = 1 -> {1, 2}
      [] m = 2 -> {1}
      [] m = 3 -> {2}
      [] m = 4 -> {}
      [] OTHER -> {(m % 2) + 1}

(* id stands for the primary key: it tells a row from one deleted and
   created again for the same user and movie *)
RatingRow(u, m, s, t) == [id |-> 0, user |-> u, movie |-> m, score |-> s, created_at |-> t]
HistoryRow(u, m, t) == [id |-> 0, user |-> u, movie |-> m, watched_on |-> t]

InitTables(nu, genresOf, rs, hs) ==
    /\ users = 1..nu
    /\ staff = {2}
    /\ genre = Genres
    /\ movie = [m \in DOMAIN genresOf |->
                  MovieRow(genresOf[m], AverageRating(rs, m), WatchCount(hs, m))]
    /\ rating = rs
    /\ history = hs
    /\ cache = {}
    /\ pagecache = {}
    /\ now = 0
    /\ nops = 0
    /\ resp = Detail("init", 0, 0, 0, 0)
    /\ lastRec = [u \in 1..nu |-> NoCall]
    /\ inflight = [w \in Workers |-> Idle]
    /\ cache_up = TRUE

(* a database in which the users who send no request in the exploration
   rated and watched movie 1 at time t, and watched the movies after the
   fourth, the last of them having watched movie 2 as well *)
SeedUsers(nu) == 3..nu
SeedRatings(nu, t) == {RatingRow(u, 1, 4 + (u % 2), t) : u \in SeedUsers(nu)}
SeedHistory(nu, t) ==
    {HistoryRow(u, m, t) : u \in SeedUsers(nu), m \in {1} \cup (5..NumMovies)}
        \cup {HistoryRow(nu, 2, t)}

Init ==
    InitTables(NumUsers, [m \in 1..NumMovies |-> GenresOfCatalog(m)],
               SeedRatings(NumUsers, 0), SeedHistory(NumUsers, 0))

(* the rows of a large catalog in which no two of the movies S have the same
   popularity_score: movie m was watched by the users 2 .. 2 + m div 6 and,
   unless 6 divides m, rated m mod 6 by user 2; the score of m is then
   300 * (1 + m div 6) + 700 * (m mod 6).  The movies outside S have no row
   and tie at score 0. *)
SeededCatalog(S) ==
    [ratings |-> {RatingRow(2, m, m % 6, 0) : m \in {x \in S : x % 6 # 0}},
     history |-> UNION {{HistoryRow(u, m, 0) : u \in 2..(2 + (m \div 6))} : m \in S}]

-----------------------------------------------------------------------------
(* Write requests *)
ValidScore(s) == ScoreMin <= s /\ s <= ScoreMax

(* rate never marks the movie as watched *)
RateNeverCreatesHistory(hs, u, m) == FALSE

(* rate: if not user_history.exists(): the watch event is created *)
RateCreatesHistory(hs, u, m) == HistoryOf(hs, u, m) = {}

(* unwatch without the check for a rating *)
UnwatchNeverBlocked(rs, u, m) == FALSE

(* unwatch: if Rating.objects.filter(user=user, movie=movie).exists(): rejected *)
UnwatchBlocked(rs, u, m) == RatingsOf(rs, u, m) # {}

(* MovieViewSet.rate: POST /movies/<m>/rate/ with score s *)
Rate(u, m, s) ==
    /\ nops' = nops + 1
    /\ UNCHANGED <<inflight, cache_up, users, staff, genre, pagecache, now>>
    /\ IF RatingsOf(rating, u, m) # {} \/ ~ValidScore(s)
       THEN /\ resp' = Detail("rate", u, u, m, 400)
            /\ UNCHANGED <<movie, rating, history, cache, lastRec>>
       ELSE LET rs == rating \cup {RatingRow(u, m, s, now)}
                loaded1 == recalculate_movie_average_rating(movie[m], rs, m)
                create == RateCreatesHistory(history, u, m)
                hs == IF create
                      THEN history \cup {HistoryRow(u, m, now)}
                      ELSE history
                loaded2 == IF create THEN recalculate_movie_watch_count(loaded1, hs, m)
                           ELSE loaded1
            IN  IF cache_up
                THEN /\ rating' = rs
                     /\ history' = hs
                     /\ movie' = MovieSave(movie, m, loaded2)
                     /\ cache' = invalidate_user_recommendation_cache(cache, u)
                     /\ NoteMutation(u)
                     /\ resp' = Detail("rate", u, u, m, 201)
                ELSE \* the rating signal raises after movie.save(): no watch event
                     /\ rating' = rs
                     /\ movie' = MovieSave(movie, m, loaded1)
                     /\ NoteMutation(u)
                     /\ resp' = Detail("rate", u, u, m, 500)
                     /\ UNCHANGED <<history, cache>>

(* MovieViewSet.watch: POST /movies/<m>/watch/ *)
Watch(u, m) ==
    /\ nops' = nops + 1
    /\ UNCHANGED <<inflight, cache_up, users, staff, genre, pagecache, now, rating>>
    /\ IF HistoryOf(history, u, m) # {}
       THEN /\ resp' = Detail("watch", u, u, m, 400)
            /\ UNCHANGED <<movie, history, cache, lastRec>>
       ELSE LET hs == history \cup {HistoryRow(u, m, now)}
            IN  /\ history' = hs
                /\ movie' = MovieSave(movie, m, recalculate_movie_watch_count(movie[m], hs, m))
                /\ cache' = CacheDelete(cache, u)
                /\ NoteMutation(u)
                /\ resp' = Detail("watch", u, u, m, Raised(201))

(* MovieViewSet.unwatch: POST /movies/<m>/unwatch/ *)
Unwatch(u, m) ==
    /\ nops' = nops + 1
    /\ UNCHANGED <<inflight, cache_up, users, staff, genre, pagecache, now, rating>>
    /\ IF HistoryOf(history, u, m) = {}
       THEN /\ resp' = Detail("unwatch", u, u, m, 404)
            /\ UNCHANGED <<movie, history, cache, lastRec>>
       ELSE IF UnwatchBlocked(rating, u, m)
       THEN /\ resp' = Detail("unwatch", u, u, m, 400)
            /\ UNCHANGED <<movie, history, cache, lastRec>>
       ELSE IF ~cache_up
       THEN \* cache.delete raises inside the transaction of delete(): rolled back
            /\ resp' = Detail("unwatch", u, u, m, 500)
            /\ UNCHANGED <<movie, history, cache, lastRec>>
       ELSE LET hs == history \ HistoryOf(history, u, m)
            IN  /\ history' = hs
                /\ movie' = MovieSave(movie, m, recalculate_movie_watch_count(movie[m], hs, m))
                /\ cache' = invalidate_user_recommendation_cache(cache, u)
                /\ NoteMutation(u)
                /\ resp' = Detail("unwatch", u, u, m, 204)

(* RatingViewSet.update: PUT /ratings/<id>/ by actor on the rating of (u, m) *)
UpdateRating(actor, u, m, s) ==
    /\ nops' = nops + 1
    /\ UNCHANGED <<inflight, cache_up, users, staff, genre, pagecache, now, history>>
    /\ IF RatingsOf(rating, u, m) = {}
       THEN /\ resp' = Detail("update_rating", actor, u, m, 404)
            /\ UNCHANGED <<movie, rating, cache, lastRec>>
       ELSE IF actor # u
       THEN /\ resp' = Detail("update_rating", actor, u, m, 403)
            /\ UNCHANGED <<movie, rating, cache, lastRec>>
       ELSE IF ~ValidScore(s)
       THEN /\ resp' = Detail("update_rating", actor, u, m, 400)
            /\ UNCHANGED <<movie, rating, cache, lastRec>>
       ELSE LET rs == {IF r.user = u /\ r.movie = m THEN [r EXCEPT !.score = s] ELSE r
                       : r \in rating}
            IN  /\ rating' = rs
                /\ movie' = MovieSave(movie, m, recalculate_movie_average_rating(movie[m], rs, m))
                /\ cache' = CacheDelete(cache, u)
                /\ NoteMutation(u)
                /\ resp' = Detail("update_rating", actor, u, m, Raised(200))

(* RatingViewSet.destroy: DELETE /ratings/<id>/ by actor on the rating of (u, m) *)
DeleteRating(actor, u, m) ==
    /\ nops' = nops + 1
    /\ UNCHANGED <<inflight, cache_up, users, staff, genre, pagecache, now, history>>
    /\ IF RatingsOf(rating, u, m) = {}
       THEN /\ resp' = Detail("delete_rating", actor, u, m, 404)
            /\ UNCHANGED <<movie, rating, cache, lastRec>>
       ELSE IF actor # u /\ actor \notin staff
       THEN /\ resp' = Detail("delete_rating", actor, u, m, 403)
            /\ UNCHANGED <<movie, rating, cache, lastRec>>
       ELSE IF ~cache_up
       THEN \* cache.delete raises inside the transaction of delete(): rolled back
            /\ resp' = Detail("delete_rating", actor, u, m, 500)
            /\ UNCHANGED <<movie, rating, cache, lastRec>>
       ELSE LET rs == rating \ RatingsOf(rating, u, m)
            IN  /\ rating' = rs
                /\ movie' = MovieSave(movie, m, recalculate_movie_average_rating(movie[m], rs, m))
                /\ cache' = invalidate_user_recommendation_cache(cache, u)
                /\ NoteMutation(u)
                /\ resp' = Detail("delete_rating", actor, u, m, 204)

(* WatchHistoryViewSet.destroy: DELETE /watch-history/<id>/ is not allowed *)
DestroyWatchHistory(actor, u, m) ==
    /\ nops' = nops + 1
    /\ resp' = Detail("destroy_history", actor, u, m, 405)
    /\ UNCHANGED <<inflight, cache_up, users, staff, genre, movie, rating, history, cache, pagecache, now, lastRec>>

-----------------------------------------------------------------------------
(* Read requests *)

(* the row orders of the statements a recommended request of u runs now: it
   runs none when the cache does not answer or answers with a stored list *)
StatementOrders(u) ==
    IF ~cache_up \/ \E e \in CacheGet(cache, now, u) : e.data # NoItems
    THEN {[outer |-> << >>, inner |-> << >>]}
    ELSE RecommendedOrders(movie, rating, history, u)

(* MovieViewSet.recommended: GET /movies/recommended/?page=&page_size= *)
Recommended(u, page, ps, tie) ==
    LET entry == CacheGet(cache, now, u)
        cached_data == IF entry = {} THEN NoItems ELSE (CHOOSE e \in entry : TRUE).data
        path == RecommendedPath(movie, rating, u)
        Called(r, until) ==
            lastRec' = [lastRec EXCEPT ![u] =
                           [state |-> "called", page |-> page, page_size |-> ps,
                            status |-> r.status, body |-> r.body, count |-> r.count,
                            items |-> r.items, until |-> until]]
    IN  /\ nops' = nops + 1
        /\ UNCHANGED <<inflight, cache_up, users, staff, genre, movie, rating, history, pagecache, now>>
        /\ IF ~cache_up
           THEN \* cache.get raises
                /\ resp' = Response("recommended", u, u, 0, page, ps, 500, "error", "outage",
                                    0, NoItems)
                /\ Called(resp', now)
                /\ UNCHANGED cache
           ELSE IF cached_data # NoItems
           THEN \* if cached_data: return Response(cached_data)
                /\ resp' = Response("recommended", u, u, 0, page, ps, 200, "list", "cache",
                                    Len(cached_data), cached_data)
                /\ Called(resp', (CHOOSE e \in entry : TRUE).expires)
                /\ UNCHANGED cache
           ELSE IF path = "error"
           THEN \* order_by on the sliced queryset raises: no cache.set
                /\ resp' = [Response("recommended", u, u, 0, page, ps, 500, "error", path,
                                     0, NoItems)
                               EXCEPT !.calc = RecommendedPlan(movie, rating, history, u, tie)]
                /\ Called(resp', now + RecommendedTtl)
                /\ UNCHANGED cache
           ELSE \E pg \in {paginate_queryset(RecommendedList(movie, rating, history, u, tie),
                                             page, ps)} :
                \E data \in {SerializeMany(movie, pg.results)} :
                IF ~pg.ok
                THEN \* paginate_queryset raises NotFound: no cache.set
                     /\ resp' = Response("recommended", u, u, 0, page, ps, 404, "detail",
                                         path, 0, NoItems)
                     /\ Called(resp', now + RecommendedTtl)
                     /\ UNCHANGED cache
                ELSE /\ cache' = CacheSet(cache, now, u, data, RecommendedTtl)
                     /\ resp' = [Response("recommended", u, u, 0, page, ps, 200, "page",
                                          path, pg.count, data)
                                    EXCEPT !.calc = RecommendedPlan(movie, rating, history,
                                                                    u, tie)]
                     /\ Called(resp', now + RecommendedTtl)

-----------------------------------------------------------------------------
(* popular and trending, behind cache_page *)

(* never finds an entry *)
PageCacheNeverHits(pc, t, view, query) == {}

(* cache_page, request phase: the stored response of the URL, if not expired *)
PageCacheGet(pc, t, view, query) ==
    {e \in pc : e.view = view /\ e.query = query /\ t < e.expires}

(* cache_page, response phase: a 200 response is stored under the URL *)
PageCacheSet(pc, t, view, query, body, timeout) ==
    {e \in pc : ~(e.view = view /\ e.query = query)}
        \cup {[view |-> view, query |-> query, body |-> body, expires |-> t + timeout]}

(* Movie.objects.annotate(popularity_score=...).order_by('-popularity_score') *)
PopularList(mv, tie) == OrderDesc(DOMAIN mv, PopularityKey(mv, DOMAIN mv), tie.outer)

(* MovieViewSet.popular: GET /movies/popular/?page=&page_size= *)
Popular(page, ps, tie) ==
    LET query == <<NoParam, page, ps>>
        stored == PageCacheGet(pagecache, now, "popular", query)
    IN  /\ nops' = nops + 1
        /\ UNCHANGED <<inflight, cache_up, users, staff, genre, movie, rating, history, cache, now, lastRec>>
        /\ IF ~cache_up
           THEN /\ resp' = Response("popular", 0, 0, 0, page, ps, 500, "error", "outage",
                                    0, NoItems)
                /\ UNCHANGED pagecache
           ELSE IF stored # {}
           THEN /\ resp' = [(CHOOSE e \in stored : TRUE).body EXCEPT !.path = "cache"]
                /\ UNCHANGED pagecache
           ELSE \E pg \in {paginate_queryset(PopularList(movie, tie), page, ps)} :
                \E body \in {Response("popular", 0, 0, 0, page, ps, 200, "page", "computed",
                                      pg.count, SerializeMany(movie, pg.results))} :
                IF ~pg.ok
                THEN /\ resp' = Response("popular", 0, 0, 0, page, ps, 404, "detail",
                                         "computed", 0, NoItems)
                     /\ UNCHANGED pagecache
                ELSE /\ resp' = body
                     /\ pagecache' = PageCacheSet(pagecache, now, "popular", query, body,
                                                  PopularTtl)

(* int(text), the text a sequence of code points: white space around the
   number is dropped, then an optional sign and at least one digit, the
   digits possibly grouped by single underscores; anything else is a
   ValueError.  int reads the decimal digits of every script (general
   category Nd, ten consecutive code points from the zero of the script; the
   zeros below are those of Unicode 14, the version of Python 3.11) and drops
   the characters \t \n \v \f \r, space, U+0085, U+00A0, U+1680,
   U+2000..U+200A, U+2028, U+2029, U+202F, U+205F and U+3000. *)
DigitZeros ==
    {48, 1632, 1776, 1984, 2406, 2534, 2662, 2790, 2918, 3046, 3174, 3302, 3430, 3558,
     3664, 3792, 3872, 4160, 4240, 6112, 6160, 6470, 6608, 6784, 6800, 6992, 7088, 7232,
     7248, 42528, 43216, 43264, 43472, 43504, 43600, 44016, 65296, 66720, 68912, 69734,
     69872, 69942, 70096, 70384, 70736, 70864, 71248, 71360, 71472, 71904, 72016, 72784,
     73040, 73120, 92768, 92864, 93008, 120782, 120792, 120802, 120812, 120822, 123200,
     123632, 125264, 130032}
IsDigit(c) == \E z \in DigitZeros : z <= c /\ c <= z + 9
Strip(text) ==
    LET whitespace == (9..13) \cup {32, 133, 160, 5760} \cup (8192..8202)
                          \cup {8232, 8233, 8239, 8287, 12288}
        inner == {i \in 1..Len(text) : text[i] \notin whitespace}
    IN  IF inner = {} THEN << >>
        ELSE SubSeq(text, CHOOSE i \in inner : \A j \in inner : i <= j,
                          CHOOSE i \in inner : \A j \in inner : i >= j)
(* "+" is 43, "-" is 45 *)
Unsigned(text) ==
    LET t == Strip(text)
    IN  IF t # << >> /\ t[1] \in {43, 45} THEN Tail(t) ELSE t
(* "_" is 95 *)
IsIntText(text) ==
    LET t == Unsigned(text)
    IN  /\ t # << >>
        /\ \A i \in 1..Len(t) :
              \/ IsDigit(t[i])
              \/ /\ t[i] = 95 /\ 1 < i /\ i < Len(t)
                 /\ IsDigit(t[i - 1]) /\ IsDigit(t[i + 1])

RECURSIVE DigitsValue(_)
DigitsValue(t) ==
    IF t = << >> THEN 0
    ELSE 10 * DigitsValue(SubSeq(t, 1, Len(t) - 1))
             + (t[Len(t)] - (CHOOSE z \in DigitZeros : z <= t[Len(t)] /\ t[Len(t)] <= z + 9))

IntOfText(text) ==
    LET digits == SelectSeq(Unsigned(text), IsDigit)
    IN  IF Strip(text)[1] = 45 THEN 0 - DigitsValue(digits) ELSE DigitsValue(digits)

(* a value below 7 becomes 7 and one above 30 becomes 30 *)
TrendingDaysNearest(param) ==
    LET days == IF param.given /\ IsIntText(param.text) THEN IntOfText(param.text)
                ELSE MaxDays
    IN  IF days < MinDays THEN MinDays ELSE IF days > MaxDays THEN MaxDays ELSE days

(* try: days = int(query_params.get("days", 30)) except ValueError: days = 30;
   if days < 7 or days > 30: days = 30 *)
TrendingDays(param) ==
    LET days == IF param.given /\ IsIntText(param.text) THEN IntOfText(param.text)
                ELSE MaxDays
    IN  IF days < MinDays \/ days > MaxDays THEN MaxDays ELSE days

(* Count('watched_by', filter=watched_on >= since) over the join of the movie
   with its ratings and its watch events: every watch event of the window
   is counted once per rating of the movie *)
recent_watch_count(rs, hs, m, since) ==
    Cardinality({h \in HistoryOfMovie(hs, m) : h.watched_on >= since})
        * Max(1, Cardinality(RatingsOfMovie(rs, m)))

RECURSIVE Factorial(_)
Factorial(n) == IF n <= 1 THEN 1 ELSE n * Factorial(n - 1)

(* scale * Coalesce(Avg('ratings__score', filter=created_at >= since), 0.0),
   scale a multiple of every possible number of ratings; the rows of the
   join repeat every rating equally often, which leaves the mean as it is *)
recent_avg_rating(rs, m, since, scale) ==
    LET R == {r \in RatingsOfMovie(rs, m) : r.created_at >= since}
    IN  IF R = {} THEN 0
        ELSE (SumOf([r \in R |-> r.score], R) * scale) \div Cardinality(R)

(* 10 * scale * (recent_avg_rating * 0.6 + recent_watch_count * 0.4) *)
trending_score(rs, hs, m, since, scale) ==
    6 * recent_avg_rating(rs, m, since, scale)
        + 4 * scale * recent_watch_count(rs, hs, m, since)

(* the annotations of the trending queryset, for every movie *)
TrendingAnnotations(mv, rs, hs, since, nusers) ==
    {[id |-> m,
      recent_watch_count |-> recent_watch_count(rs, hs, m, since),
      recent_avg_rating |-> recent_avg_rating(rs, m, since, Factorial(nusers)),
      trending_score |-> trending_score(rs, hs, m, since, Factorial(nusers))]
     : m \in DOMAIN mv}

(* the movies with recent_watch_count > 0 or recent_avg_rating > 0 *)
TrendingCandidates(mv, rs, hs, since, nusers) ==
    {m \in DOMAIN mv : \/ recent_watch_count(rs, hs, m, since) > 0
                       \/ recent_avg_rating(rs, m, since, Factorial(nusers)) > 0}

(* the candidates by -trending_score, and the row orders of that statement *)
TrendingList(mv, rs, hs, since, nusers, tie) ==
    LET cand == TrendingCandidates(mv, rs, hs, since, nusers)
    IN  OrderDesc(cand,
                  [m \in cand |-> trending_score(rs, hs, m, since, Factorial(nusers))],
                  tie.outer)
TrendingOrders(mv, rs, hs, since, nusers) ==
    LET cand == TrendingCandidates(mv, rs, hs, since, nusers)
        key == [m \in cand |-> trending_score(rs, hs, m, since, Factorial(nusers))]
    IN  {[outer |-> o, inner |-> << >>] : o \in RowOrders(cand, key, DOMAIN mv)}

(* MovieViewSet.trending: GET /movies/trending/?days=&page=&page_size= *)
Trending(days, page, ps, tie) ==
    LET query == <<days, page, ps>>
        stored == PageCacheGet(pagecache, now, "trending", query)
        since == now - TrendingDays(days) * DaySeconds
    IN  /\ nops' = nops + 1
        /\ UNCHANGED <<inflight, cache_up, users, staff, genre, movie, rating, history, cache, now, lastRec>>
        /\ IF ~cache_up
           THEN /\ resp' = [Response("trending", 0, 0, 0, page, ps, 500, "error", "outage",
                                     0, NoItems) EXCEPT !.days = days]
                /\ UNCHANGED pagecache
           ELSE IF stored # {}
           THEN /\ resp' = [(CHOOSE e \in stored : TRUE).body EXCEPT !.path = "cache"]
                /\ UNCHANGED pagecache
           ELSE \E pg \in {paginate_queryset(
                               TrendingList(movie, rating, history, since,
                                            Cardinality(users), tie), page, ps)} :
                \E body \in {[Response("trending", 0, 0, 0, page, ps, 200, "page",
                                       "computed", pg.count,
                                       SerializeMany(movie, pg.results))
                                 EXCEPT !.days = days,
                                        !.calc = TrendingAnnotations(movie, rating, history,
                                                     since, Cardinality(users))]} :
                IF ~pg.ok
                THEN /\ resp' = [Response("trending", 0, 0, 0, page, ps, 404, "detail",
                                          "computed", 0, NoItems) EXCEPT !.days = days]
                     /\ UNCHANGED pagecache
                ELSE /\ resp' = body
                     /\ pagecache' = PageCacheSet(pagecache, now, "trending", query, body,
                                                  TrendingTtl)

(* time passes *)
Tick ==
    /\ now + TickSeconds <= MaxTime
    /\ now' = now + TickSeconds
    /\ UNCHANGED <<inflight, cache_up, users, staff, genre, movie, rating, history, cache, pagecache, nops, resp, lastRec>>

(* the cache server stops answering, and answers again with its entries *)
CacheFails ==
    /\ cache_up
    /\ cache_up' = FALSE
    /\ UNCHANGED <<inflight, users, staff, genre, movie, rating, history, cache, pagecache, now,
                   nops, resp, lastRec>>

CacheRecovers ==
    /\ ~cache_up
    /\ cache_up' = TRUE
    /\ UNCHANGED <<inflight, users, staff, genre, movie, rating, history, cache, pagecache, now,
                   nops, resp, lastRec>>

-----------------------------------------------------------------------------
(* The catalog and the accounts: create, update and destroy of
   MovieViewSet, GenreViewSet and UserViewSet (ModelViewSet).  A new row gets
   a key never used before (uuid4): nops tells the requests apart.
   destroy deletes the rows that refer to the row (on_delete=CASCADE) in one
   transaction: the ratings, then the watch events, each in one statement
   followed by the post_delete handler of every row of it, then the row. *)
FreshKey(rows) == rows + 1 + nops

(* the handlers of the ratings rs and watch events hs deleted by a cascade,
   each on the Movie row it fetches when it runs *)
CascadeSave(mv, rs, hs, left_rs, left_hs) ==
    [m \in DOMAIN mv |->
        LET rated == IF RatingsOfMovie(rs, m) # {}
                     THEN recalculate_movie_average_rating(mv[m], left_rs, m)
                     ELSE mv[m]
        IN  IF HistoryOfMovie(hs, m) # {}
            THEN recalculate_movie_watch_count(rated, left_hs, m)
            ELSE rated]

CascadeOwners(rs, hs) == {r.user : r \in rs} \cup {h.user : h \in hs}

CascadeInvalidate(c, owners) ==
    {e \in c : \A u \in owners : e \in invalidate_user_recommendation_cache(c, u)}

CascadeNote(owners) ==
    lastRec' = [u \in DOMAIN lastRec |->
                   IF u \in owners THEN [NoCall EXCEPT !.state = "mutated"] ELSE lastRec[u]]

(* MovieViewSet.create: POST /movies/ with the genre ids G *)
CreateMovie(a, G) ==
    LET m == FreshKey(NumMovies)
    IN  /\ nops' = nops + 1
        /\ UNCHANGED <<inflight, cache_up, users, staff, genre, pagecache, now, rating,
                       history, cache, lastRec>>
        /\ IF a \notin staff
           THEN resp' = Detail("create_movie", a, 0, 0, 403) /\ UNCHANGED movie
           ELSE IF ~(G \subseteq genre)
           THEN resp' = Detail("create_movie", a, 0, 0, 400) /\ UNCHANGED movie
           ELSE /\ movie' = [x \in DOMAIN movie \cup {m} |->
                                IF x = m THEN MovieRow(G, 0, 0) ELSE movie[x]]
                /\ resp' = Detail("create_movie", a, 0, m, 201)

(* MovieViewSet.update: PUT /movies/<m>/ with the genre ids G *)
UpdateMovie(a, m, G) ==
    /\ nops' = nops + 1
    /\ UNCHANGED <<inflight, cache_up, users, staff, genre, pagecache, now, rating, history,
                   cache, lastRec>>
    /\ IF a \notin staff
       THEN resp' = Detail("update_movie", a, 0, m, 403) /\ UNCHANGED movie
       ELSE IF m \notin DOMAIN movie
       THEN resp' = Detail("update_movie", a, 0, m, 404) /\ UNCHANGED movie
       ELSE IF ~(G \subseteq genre)
       THEN resp' = Detail("update_movie", a, 0, m, 400) /\ UNCHANGED movie
       ELSE /\ movie' = [movie EXCEPT ![m].genres = G]
            /\ resp' = Detail("update_movie", a, 0, m, 200)

(* MovieViewSet.destroy: DELETE /movies/<m>/ *)
DeleteMovie(a, m) ==
    LET rs == RatingsOfMovie(rating, m)
        hs == HistoryOfMovie(history, m)
        owners == CascadeOwners(rs, hs)
    IN  /\ nops' = nops + 1
        /\ UNCHANGED <<inflight, cache_up, users, staff, genre, pagecache, now>>
        /\ IF a \notin staff
           THEN /\ resp' = Detail("delete_movie", a, 0, m, 403)
                /\ UNCHANGED <<movie, rating, history, cache, lastRec>>
           ELSE IF m \notin DOMAIN movie
           THEN /\ resp' = Detail("delete_movie", a, 0, m, 404)
                /\ UNCHANGED <<movie, rating, history, cache, lastRec>>
           ELSE IF owners # {} /\ ~cache_up
           THEN \* cache.delete raises in a handler: the transaction is rolled back
                /\ resp' = Detail("delete_movie", a, 0, m, 500)
                /\ UNCHANGED <<movie, rating, history, cache, lastRec>>
           ELSE /\ rating' = rating \ rs
                /\ history' = history \ hs
                /\ movie' = [x \in DOMAIN movie \ {m} |-> movie[x]]
                /\ cache' = CascadeInvalidate(cache, owners)
                /\ CascadeNote(owners)
                /\ resp' = Detail("delete_movie", a, 0, m, 204)

(* GenreViewSet.create: POST /genres/ *)
CreateGenre(a) ==
    /\ nops' = nops + 1
    /\ UNCHANGED <<inflight, cache_up, users, staff, pagecache, now, movie, rating, history,
                   cache, lastRec>>
    /\ IF a \notin staff
       THEN resp' = Detail("create_genre", a, 0, 0, 403) /\ UNCHANGED genre
       ELSE /\ genre' = genre \cup {FreshKey(Cardinality(Genres))}
            /\ resp' = Detail("create_genre", a, 0, 0, 201)

(* GenreViewSet.update: PUT /genres/<g>/, a new name *)
UpdateGenre(a, g) ==
    /\ nops' = nops + 1
    /\ UNCHANGED <<inflight, cache_up, users, staff, genre, pagecache, now, movie, rating,
                   history, cache, lastRec>>
    /\ resp' = Detail("update_genre", a, 0, 0,
                      IF a \notin staff THEN 403 ELSE IF g \notin genre THEN 404 ELSE 200)

(* GenreViewSet.destroy: DELETE /genres/<g>/; the rows of Movie.genres that
   name the genre go with it, no handler runs *)
DeleteGenre(a, g) ==
    /\ nops' = nops + 1
    /\ UNCHANGED <<inflight, cache_up, users, staff, pagecache, now, rating, history, cache,
                   lastRec>>
    /\ IF a \notin staff \/ g \notin genre
       THEN /\ resp' = Detail("delete_genre", a, 0, 0, IF a \notin staff THEN 403 ELSE 404)
            /\ UNCHANGED <<genre, movie>>
       ELSE /\ genre' = genre \ {g}
            /\ movie' = [m \in DOMAIN movie |-> [movie[m] EXCEPT !.genres = @ \ {g}]]
            /\ resp' = Detail("delete_genre", a, 0, 0, 204)

(* UserViewSet.create: POST /users/, the signup open to everyone; valid is
   the outcome of UserSerializer.is_valid() *)
CreateUser(valid) ==
    LET u == FreshKey(NumUsers)
    IN  /\ nops' = nops + 1
        /\ UNCHANGED <<inflight, cache_up, staff, genre, pagecache, now, movie, rating,
                       history, cache>>
        /\ IF ~valid
           THEN resp' = Detail("create_user", 0, 0, 0, 400) /\ UNCHANGED <<users, lastRec>>
           ELSE /\ users' = users \cup {u}
                /\ lastRec' = [x \in DOMAIN lastRec \cup {u} |->
                                  IF x \in DOMAIN lastRec THEN lastRec[x] ELSE NoCall]
                /\ resp' = Detail("create_user", 0, u, 0, 201)

(* get_queryset of UserViewSet: the users a sees *)
VisibleUsers(a) == IF a \in staff THEN users ELSE users \cap {a}

(* UserViewSet.update: PUT /users/<u>/; is_staff is no field of UserSerializer *)
UpdateUser(a, u) ==
    /\ nops' = nops + 1
    /\ UNCHANGED <<inflight, cache_up, users, staff, genre, pagecache, now, movie, rating,
                   history, cache, lastRec>>
    /\ resp' = Detail("update_user", a, u, 0, IF u \in VisibleUsers(a) THEN 200 ELSE 404)

(* UserViewSet.destroy: DELETE /users/<u>/ *)
DeleteUser(a, u) ==
    LET rs == {r \in rating : r.user = u}
        hs == {h \in history : h.user = u}
        owners == CascadeOwners(rs, hs)
    IN  /\ nops' = nops + 1
        /\ UNCHANGED <<inflight, cache_up, genre, pagecache, now>>
        /\ IF u \notin VisibleUsers(a)
           THEN /\ resp' = Detail("delete_user", a, u, 0, 404)
                /\ UNCHANGED <<users, staff, movie, rating, history, cache, lastRec>>
           ELSE IF owners # {} /\ ~cache_up
           THEN \* cache.delete raises in a handler: the transaction is rolled back
                /\ resp' = Detail("delete_user", a, u, 0, 500)
                /\ UNCHANGED <<users, staff, movie, rating, history, cache, lastRec>>
           ELSE /\ rating' = rating \ rs
                /\ history' = history \ hs
                /\ movie' = CascadeSave(movie, rs, hs, rating \ rs, history \ hs)
                /\ users' = users \ {u}
                /\ staff' = staff \ {u}
                /\ cache' = CascadeInvalidate(cache, owners)
                /\ CascadeNote(owners)
                /\ resp' = Detail("delete_user", a, u, 0, 204)

-----------------------------------------------------------------------------
(* The handlers one database or cache call at a time, as the workers of the
   server interleave them.  A worker serves one request.  A statement is
   committed when it is executed (autocommit) and its post_save handler runs
   after it; delete() runs the DELETE and the post_delete handler in one
   transaction (Collector.delete under transaction.atomic): the others see
   what it wrote at its commit, a statement of another worker on a row it
   has written waits for that, and an exception in it undoes it.  Every
   statement reads the rows committed when it starts (READ COMMITTED). *)
SetWorker(w, rec) == inflight' = [inflight EXCEPT ![w] = rec]
Goto(w, pc) == SetWorker(w, [inflight[w] EXCEPT !.pc = pc])
InFlight(w) == inflight[w].pc \notin {"idle", "done"}

(* the response leaves the worker *)
Finish(w, status) ==
    /\ Goto(w, "done")
    /\ nops' = nops + 1
    /\ resp' = Detail(inflight[w].op, inflight[w].user, inflight[w].owner,
                      inflight[w].movie, status)

(* uuid4 for a new row of (u, m): a key that no row instance held by a
   handler in flight (one of ops) bears *)
FreshId(ops, u, m) ==
    LET held == {inflight[v].row :
                    v \in {x \in Workers : /\ InFlight(x) /\ inflight[x].op \in ops
                                           /\ inflight[x].owner = u /\ inflight[x].movie = m}}
    IN  CHOOSE i \in 0..MaxWorkers : i \notin held /\ \A j \in 0..(i - 1) : j \in held

(* the requests served by delete(), and the positions inside its transaction *)
TxnOps == {"delete_rating", "unwatch"}
TxnPcs == {"load", "aggregate", "save", "invalidate",
           "load_count", "count", "save_count", "invalidate_count", "commit"}

(* the workers other than w whose open transaction has deleted the row of
   (u, m): op tells the table *)
Deleting(w, op, u, m) ==
    {v \in Workers \ {w} : /\ inflight[v].op = op /\ inflight[v].pc \in TxnPcs
                           /\ inflight[v].owner = u /\ inflight[v].movie = m
                           /\ inflight[v].row >= 0}

(* the workers other than w whose open transaction has written the row of movie m *)
SavingMovie(w, m) ==
    {v \in Workers \ {w} : /\ inflight[v].op \in TxnOps
                           /\ inflight[v].pc \in {"invalidate", "invalidate_count", "commit"}
                           /\ inflight[v].movie = m}

(* the row the instance of the handler stands for, if it is stored *)
InstanceRow(rows, h) ==
    {r \in rows : r.user = h.owner /\ r.movie = h.movie /\ r.id = h.row}

(* the rows a statement of w reads: the committed ones, without the row its
   own open transaction has deleted *)
RowsSeen(rows, w, op) ==
    IF inflight[w].op = op /\ inflight[w].pc \in TxnPcs
    THEN rows \ InstanceRow(rows, inflight[w])
    ELSE rows

(* rate: movie = self.get_object() *)
RateBegin(w, u, m, s) ==
    /\ inflight[w].pc = "idle"
    /\ SetWorker(w, [Idle EXCEPT !.pc = "check", !.op = "rate", !.user = u, !.owner = u,
                                  !.movie = m, !.score = s, !.loaded = movie[m]])
    /\ UNCHANGED <<cache_up, users, staff, genre, movie, rating, history, cache, pagecache, now,
                   nops, resp, lastRec>>

(* rate: user_rating.exists(), serializer.is_valid() *)
RateCheck(w) ==
    LET h == inflight[w]
    IN  /\ h.pc = "check"
        /\ IF RatingsOf(rating, h.owner, h.movie) # {} \/ ~ValidScore(h.score)
           THEN Finish(w, 400)
           ELSE Goto(w, "create") /\ UNCHANGED <<nops, resp>>
        /\ UNCHANGED <<cache_up, users, staff, genre, movie, rating, history, cache, pagecache, now,
                       lastRec>>

(* RatingViewSet.update / destroy: get_object(), the permission check and,
   for an update, the validation of the new score *)
RatingBegin(w, op, actor, u, m, s) ==
    LET found == RatingsOf(rating, u, m)
        h == [Idle EXCEPT !.pc = "write", !.op = op, !.user = actor, !.owner = u,
                          !.movie = m, !.score = s,
                          !.row = IF found = {} THEN 0 - 1 ELSE (CHOOSE r \in found : TRUE).id]
        refused == IF found = {} THEN 404
                   ELSE IF actor # u /\ (op = "update_rating" \/ actor \notin staff) THEN 403
                   ELSE IF op = "update_rating" /\ ~ValidScore(s) THEN 400
                   ELSE 0
    IN  /\ inflight[w].pc = "idle"
        /\ op \in {"update_rating", "delete_rating"}
        /\ IF refused # 0
           THEN /\ SetWorker(w, [h EXCEPT !.pc = "done"])
                /\ nops' = nops + 1
                /\ resp' = Detail(op, actor, u, m, refused)
           ELSE SetWorker(w, h) /\ UNCHANGED <<nops, resp>>
        /\ UNCHANGED <<cache_up, users, staff, genre, movie, rating, history, cache, pagecache, now,
                       lastRec>>

(* The first statement on the rating row: the INSERT of rate, the UPDATE of
   save() or the DELETE of delete().  An INSERT for a pair that has a row
   breaks unique_together (IntegrityError); an UPDATE that matches no row,
   the row of the instance being gone, leaves save() to insert the instance
   in a second statement; the DELETE of delete() is not committed yet. *)
RatingWrite(w) ==
    LET h == inflight[w]
        pair == RatingsOf(rating, h.owner, h.movie)
        mine == InstanceRow(rating, h)
    IN  /\ h.pc \in {"create", "write"}
        /\ \/ h.op # "rate" /\ mine = {}
           \/ Deleting(w, "delete_rating", h.owner, h.movie) = {}
        /\ CASE h.op = "rate" ->
                  IF pair # {}
                  THEN Finish(w, 500) /\ UNCHANGED <<rating, lastRec>>
                  ELSE /\ rating' = rating \cup
                              {[RatingRow(h.owner, h.movie, h.score, now) EXCEPT
                                   !.id = FreshId({"update_rating", "delete_rating"},
                                                  h.owner, h.movie)]}
                       /\ NoteMutation(h.owner)
                       /\ Goto(w, "aggregate")
                       /\ UNCHANGED <<nops, resp>>
             [] h.op = "update_rating" ->
                  IF mine # {}
                  THEN /\ rating' = {IF r \in mine THEN [r EXCEPT !.score = h.score] ELSE r
                                     : r \in rating}
                       /\ NoteMutation(h.owner)
                       /\ Goto(w, "load")
                       /\ UNCHANGED <<nops, resp>>
                  ELSE /\ Goto(w, "insert")
                       /\ UNCHANGED <<rating, lastRec, nops, resp>>
             [] OTHER ->
                  /\ SetWorker(w, [h EXCEPT !.pc = "load",
                                            !.row = IF mine = {} THEN 0 - 1 ELSE h.row])
                  /\ UNCHANGED <<rating, lastRec, nops, resp>>
        /\ UNCHANGED <<cache_up, users, staff, genre, movie, history, cache, pagecache, now>>

(* save() of an update whose UPDATE matched no row: the INSERT of the
   instance, under its key and with a new created_at, a statement of its
   own.  When the pair has a row again, inserted in between by another
   request, it breaks unique_together (IntegrityError). *)
RatingInsert(w) ==
    LET h == inflight[w]
    IN  /\ h.pc = "insert"
        /\ Deleting(w, "delete_rating", h.owner, h.movie) = {}
        /\ IF RatingsOf(rating, h.owner, h.movie) # {}
           THEN Finish(w, 500) /\ UNCHANGED <<rating, lastRec>>
           ELSE /\ rating' = rating \cup
                       {[RatingRow(h.owner, h.movie, h.score, now) EXCEPT !.id = h.row]}
                /\ NoteMutation(h.owner)
                /\ Goto(w, "load")
                /\ UNCHANGED <<nops, resp>>
        /\ UNCHANGED <<cache_up, users, staff, genre, movie, history, cache, pagecache, now>>

(* signal of an update or a delete: movie = instance.movie fetches the row *)
LoadMovie(w) ==
    LET h == inflight[w]
    IN  /\ h.pc \in {"load", "load_count"}
        /\ SetWorker(w, [h EXCEPT !.pc = IF h.pc = "load" THEN "aggregate" ELSE "count",
                                  !.loaded = movie[h.movie]])
        /\ UNCHANGED <<cache_up, users, staff, genre, movie, rating, history, cache, pagecache, now,
                       nops, resp, lastRec>>

(* recalculate_movie_average_rating: the aggregate query and the assignment *)
AggregateRatings(w) ==
    LET h == inflight[w]
    IN  /\ h.pc = "aggregate"
        /\ SetWorker(w, [h EXCEPT !.pc = "save",
                            !.loaded = recalculate_movie_average_rating(
                                           h.loaded, RowsSeen(rating, w, "delete_rating"),
                                           h.movie)])
        /\ UNCHANGED <<cache_up, users, staff, genre, movie, rating, history, cache, pagecache, now,
                       nops, resp, lastRec>>

(* movie.save() of either signal handler: every field of the instance.  In
   the transaction of delete() the row is written for the others at the
   commit. *)
SaveMovie(w) ==
    LET h == inflight[w]
    IN  /\ h.pc \in {"save", "save_count"}
        /\ SavingMovie(w, h.movie) = {}
        /\ movie' = IF h.op \in TxnOps THEN movie ELSE MovieSave(movie, h.movie, h.loaded)
        /\ Goto(w, IF h.pc = "save" THEN "invalidate" ELSE "invalidate_count")
        /\ UNCHANGED <<cache_up, users, staff, genre, rating, history, cache, pagecache, now,
                       nops, resp, lastRec>>

(* invalidate_user_recommendation_cache at the end of either signal handler;
   the exception of a cache that does not answer ends the request, and undoes
   the transaction of delete() *)
InvalidateStep(w) ==
    LET h == inflight[w]
    IN  /\ h.pc \in {"invalidate", "invalidate_count"}
        /\ IF ~cache_up
           THEN Finish(w, 500) /\ UNCHANGED cache
           ELSE /\ cache' = invalidate_user_recommendation_cache(cache, h.owner)
                /\ IF h.op \in TxnOps
                   THEN Goto(w, "commit") /\ UNCHANGED <<nops, resp>>
                   ELSE IF h.op = "rate" /\ h.pc = "invalidate"
                   THEN Goto(w, "history") /\ UNCHANGED <<nops, resp>>
                   ELSE Finish(w, IF h.op = "update_rating" THEN 200 ELSE 201)
        /\ UNCHANGED <<cache_up, users, staff, genre, movie, rating, history, pagecache, now,
                       lastRec>>

(* the end of transaction.atomic in delete(): the DELETE and the movie row
   of the handler are committed, then the 204 *)
Commit(w) ==
    LET h == inflight[w]
    IN  /\ h.pc = "commit"
        /\ rating' = RowsSeen(rating, w, "delete_rating")
        /\ history' = RowsSeen(history, w, "unwatch")
        /\ movie' = MovieSave(movie, h.movie, h.loaded)
        /\ NoteMutation(h.owner)
        /\ Finish(w, 204)
        /\ UNCHANGED <<cache_up, users, staff, genre, cache, pagecache, now>>

(* rate: user_history = ...filter(user=user, movie=movie); user_history.exists() *)
HistoryExists(w) ==
    LET h == inflight[w]
    IN  /\ h.pc = "history"
        /\ IF RateCreatesHistory(history, h.owner, h.movie)
           THEN Goto(w, "history_insert") /\ UNCHANGED <<nops, resp>>
           ELSE Finish(w, 201)
        /\ UNCHANGED <<cache_up, users, staff, genre, movie, rating, history, cache, pagecache, now,
                       lastRec>>

(* rate: WatchHistory.objects.create(user=user, movie=movie); watch:
   serializer.save(user=user, movie=movie).  The INSERT for a pair that has
   a row breaks unique_together (IntegrityError). *)
HistoryCreate(w) ==
    LET h == inflight[w]
    IN  /\ h.pc = "history_insert"
        /\ Deleting(w, "unwatch", h.owner, h.movie) = {}
        /\ IF HistoryOf(history, h.owner, h.movie) # {}
           THEN Finish(w, 500) /\ UNCHANGED <<history, lastRec>>
           ELSE /\ history' = history \cup
                       {[HistoryRow(h.owner, h.movie, now) EXCEPT
                            !.id = FreshId({"unwatch"}, h.owner, h.movie)]}
                /\ NoteMutation(h.owner)
                /\ Goto(w, "count")
                /\ UNCHANGED <<nops, resp>>
        /\ UNCHANGED <<cache_up, users, staff, genre, movie, rating, cache, pagecache, now>>

(* recalculate_movie_watch_count: the count query and the assignment *)
CountHistory(w) ==
    LET h == inflight[w]
    IN  /\ h.pc = "count"
        /\ SetWorker(w, [h EXCEPT !.pc = "save_count",
                            !.loaded = recalculate_movie_watch_count(
                                           h.loaded, RowsSeen(history, w, "unwatch"),
                                           h.movie)])
        /\ UNCHANGED <<cache_up, users, staff, genre, movie, rating, history, cache, pagecache, now,
                       nops, resp, lastRec>>

(* watch: movie = self.get_object() *)
WatchBegin(w, u, m) ==
    /\ inflight[w].pc = "idle"
    /\ SetWorker(w, [Idle EXCEPT !.pc = "watch_check", !.op = "watch", !.user = u,
                                  !.owner = u, !.movie = m, !.loaded = movie[m]])
    /\ UNCHANGED <<cache_up, users, staff, genre, movie, rating, history, cache, pagecache, now,
                   nops, resp, lastRec>>

(* watch: user_history.exists() *)
WatchCheck(w) ==
    LET h == inflight[w]
    IN  /\ h.pc = "watch_check"
        /\ IF HistoryOf(history, h.owner, h.movie) # {}
           THEN Finish(w, 400)
           ELSE Goto(w, "history_insert") /\ UNCHANGED <<nops, resp>>
        /\ UNCHANGED <<cache_up, users, staff, genre, movie, rating, history, cache, pagecache, now,
                       lastRec>>

(* unwatch: get_object() and history = WatchHistory.objects.filter(...).first() *)
UnwatchBegin(w, u, m) ==
    LET found == HistoryOf(history, u, m)
        h == [Idle EXCEPT !.pc = "unwatch_check", !.op = "unwatch", !.user = u,
                          !.owner = u, !.movie = m,
                          !.row = IF found = {} THEN 0 - 1 ELSE (CHOOSE r \in found : TRUE).id]
    IN  /\ inflight[w].pc = "idle"
        /\ IF found = {}
           THEN /\ SetWorker(w, [h EXCEPT !.pc = "done"])
                /\ nops' = nops + 1
                /\ resp' = Detail("unwatch", u, u, m, 404)
           ELSE SetWorker(w, h) /\ UNCHANGED <<nops, resp>>
        /\ UNCHANGED <<cache_up, users, staff, genre, movie, rating, history, cache, pagecache, now,
                       lastRec>>

(* unwatch: Rating.objects.filter(user=user, movie=movie).exists() *)
UnwatchCheck(w) ==
    LET h == inflight[w]
    IN  /\ h.pc = "unwatch_check"
        /\ IF UnwatchBlocked(rating, h.owner, h.movie)
           THEN Finish(w, 400)
           ELSE Goto(w, "delete_history") /\ UNCHANGED <<nops, resp>>
        /\ UNCHANGED <<cache_up, users, staff, genre, movie, rating, history, cache, pagecache, now,
                       lastRec>>

(* unwatch: history.delete(), the DELETE of its transaction *)
HistoryDelete(w) ==
    LET h == inflight[w]
        mine == InstanceRow(history, h)
    IN  /\ h.pc = "delete_history"
        /\ mine = {} \/ Deleting(w, "unwatch", h.owner, h.movie) = {}
        /\ SetWorker(w, [h EXCEPT !.pc = "load_count",
                                  !.row = IF mine = {} THEN 0 - 1 ELSE h.row])
        /\ UNCHANGED <<cache_up, users, staff, genre, movie, rating, history, cache, pagecache, now,
                       nops, resp, lastRec>>

(* recommended: cached_data = cache.get(cache_key); if cached_data: return *)
RecBegin(w, u, page, ps) ==
    LET entry == CacheGet(cache, now, u)
        cached_data == IF entry = {} THEN NoItems ELSE (CHOOSE e \in entry : TRUE).data
        h == [Idle EXCEPT !.pc = "rec_exists", !.op = "recommended", !.user = u, !.owner = u,
                          !.body = Response("recommended", u, u, 0, page, ps, 0, "none",
                                            "none", 0, NoItems)]
    IN  /\ inflight[w].pc = "idle"
        /\ IF ~cache_up
           THEN /\ SetWorker(w, [h EXCEPT !.pc = "done"])
                /\ nops' = nops + 1
                /\ resp' = Response("recommended", u, u, 0, page, ps, 500, "error", "outage",
                                    0, NoItems)
           ELSE IF cached_data # NoItems
           THEN /\ SetWorker(w, [h EXCEPT !.pc = "done"])
                /\ nops' = nops + 1
                /\ resp' = Response("recommended", u, u, 0, page, ps, 200, "list", "cache",
                                    Len(cached_data), cached_data)
           ELSE SetWorker(w, h) /\ UNCHANGED <<nops, resp>>
        /\ UNCHANGED <<cache_up, users, staff, genre, movie, rating, history, cache, pagecache, now,
                       lastRec>>

(* recommended: liked_movies.exists(), then total_liked_movies =
   liked_movies.count() in its own query *)
RecLiked(w) ==
    LET h == inflight[w]
    IN  /\ h.pc \in {"rec_exists", "rec_total"}
        /\ IF h.pc = "rec_total"
           THEN SetWorker(w, [h EXCEPT !.pc = "rec_genres",
                                 !.total = total_liked_movies(movie, rating, h.owner)])
           ELSE IF LikedMovies(rating, h.owner) = {}
           THEN SetWorker(w, [h EXCEPT !.pc = "rec_count",
                                       !.body = [h.body EXCEPT !.path = "fallback"]])
           ELSE Goto(w, "rec_total")
        /\ UNCHANGED <<cache_up, users, staff, genre, movie, rating, history, cache, pagecache, now,
                       nops, resp, lastRec>>

(* recommended: for genre in ordered_liked_genres, the query of the liked
   genres and the loop over its rows.  Dividing by a total of 0 raises, and
   so does order_by on the sliced queryset of a single genre. *)
RecGenres(w) ==
    LET h == inflight[w]
        liked == LikedMovies(rating, h.owner)
        G == liked_genres(movie, liked)
    IN  /\ h.pc = "rec_genres"
        /\ IF (G # {} /\ h.total = 0) \/ Cardinality(G) = 1
           THEN /\ Goto(w, "done")
                /\ nops' = nops + 1
                /\ resp' = [h.body EXCEPT !.status = 500, !.body = "error", !.path = "error"]
           ELSE /\ SetWorker(w, [h EXCEPT
                       !.pc = "rec_count",
                       !.num = [g \in G |-> num_to_pick(liked_movies_count(movie, liked, g),
                                                        h.total)],
                       !.body = [h.body EXCEPT !.path = "personalized"]])
                /\ UNCHANGED <<nops, resp>>
        /\ UNCHANGED <<cache_up, users, staff, genre, movie, rating, history, cache, pagecache, now,
                       lastRec>>

(* the row orders of the statement the handler runs on the rows stored now,
   and the list its queryset yields *)
ListOrders(h) ==
    IF h.body.path = "fallback"
    THEN PopularityOrders(movie, DOMAIN movie \ WatchedBy(history, h.owner))
    ELSE PickOrders(movie, history, h.owner, h.num)
ListNow(h, tie) ==
    IF h.body.path = "fallback" THEN FallbackList(movie, history, h.owner, tie)
    ELSE ListOfPicks(movie, history, h.owner, h.num, tie)

(* recommended: paginate_queryset, the COUNT query of the paginator and the
   check of the page number *)
RecCount(w, tie) ==
    LET h == inflight[w]
        count == Len(ListNow(h, tie))
    IN  /\ h.pc = "rec_count"
        /\ IF ~PageOf(<< >>, count, h.body.page, h.body.page_size).ok
           THEN /\ Goto(w, "done")
                /\ nops' = nops + 1
                /\ resp' = [h.body EXCEPT !.status = 404, !.body = "detail"]
           ELSE /\ SetWorker(w, [h EXCEPT !.pc = "rec_page",
                                          !.body = [h.body EXCEPT !.count = count]])
                /\ UNCHANGED <<nops, resp>>
        /\ UNCHANGED <<cache_up, users, staff, genre, movie, rating, history, cache, pagecache, now,
                       lastRec>>

(* recommended: the SELECT of the page and serializer.data *)
RecPage(w, tie) ==
    LET h == inflight[w]
        pg == PageOf(ListNow(h, tie), h.body.count, h.body.page, h.body.page_size)
    IN  /\ h.pc = "rec_page"
        /\ SetWorker(w, [h EXCEPT !.pc = "store",
                                  !.body = [h.body EXCEPT
                                               !.status = 200, !.body = "page",
                                               !.items = SerializeMany(movie, pg.results)]])
        /\ UNCHANGED <<cache_up, users, staff, genre, movie, rating, history, cache, pagecache, now,
                       nops, resp, lastRec>>

(* recommended: cache.set(cache_key, data, timeout=60 * 10) and the response *)
RecStore(w) ==
    LET h == inflight[w]
    IN  /\ h.pc = "store"
        /\ Goto(w, "done")
        /\ nops' = nops + 1
        /\ IF cache_up
           THEN /\ cache' = CacheSet(cache, now, h.owner, h.body.items, RecommendedTtl)
                /\ resp' = h.body
           ELSE /\ resp' = [h.body EXCEPT !.status = 500, !.body = "error",
                                          !.path = "outage", !.count = 0, !.items = NoItems]
                /\ UNCHANGED cache
        /\ UNCHANGED <<cache_up, users, staff, genre, movie, rating, history, pagecache, now,
                       lastRec>>

-----------------------------------------------------------------------------
(* The request inputs explored *)
ScoreInputs == {2, 4, 6}
ActiveUsers == users \cap {1, 2}
ActiveMovies == DOMAIN movie \cap {1, 2, 3}
RowMovies == DOMAIN movie \cap {1, 2}

Next ==
    /\ nops < MaxOps
    /\ \/ \E u \in ActiveUsers, m \in ActiveMovies, s \in ScoreInputs : Rate(u, m, s)
       \/ \E u \in ActiveUsers, m \in ActiveMovies : Watch(u, m)
       \/ \E u \in ActiveUsers, m \in ActiveMovies : Unwatch(u, m)
       \/ \E a \in ActiveUsers, u \in ActiveUsers, m \in RowMovies, s \in ScoreInputs :
              UpdateRating(a, u, m, s)
       \/ \E a \in ActiveUsers, u \in ActiveUsers, m \in RowMovies : DeleteRating(a, u, m)
       \/ \E a \in ActiveUsers, u \in ActiveUsers, m \in RowMovies :
              DestroyWatchHistory(a, u, m)
       \/ \E u \in ActiveUsers :
             \E tie \in StatementOrders(u) :
                 \E page \in {1, 2}, ps \in {0, 2} :
                     Recommended(u, page, ps, tie)

Spec == Init /\ [][Next]_vars

(* The same requests with those on the catalog and the accounts: user 2 is
   staff, user 1 is not; ids beyond the tables stand for rows that are not
   there. *)
FaultScoreInputs == {4}
NextAdmin ==
    /\ nops < MaxAdminOps
    /\ \/ \E u \in ActiveUsers, m \in RowMovies, s \in FaultScoreInputs : Rate(u, m, s)
       \/ \E u \in ActiveUsers, m \in RowMovies : Watch(u, m)
       \/ \E u \in ActiveUsers, m \in RowMovies : Unwatch(u, m)
       \/ \E u \in ActiveUsers, m \in RowMovies, s \in FaultScoreInputs :
              UpdateRating(u, u, m, s)
       \/ \E a \in ActiveUsers, u \in ActiveUsers, m \in RowMovies : DeleteRating(a, u, m)
       \/ \E a \in ActiveUsers, u \in ActiveUsers, m \in RowMovies :
              DestroyWatchHistory(a, u, m)
       \/ \E u \in ActiveUsers :
                 \E tie \in StatementOrders(u) :
                     Recommended(u, 1, 0, tie)
       \/ \E a \in ActiveUsers, G \in {{}, {1}, {1, 3}} : CreateMovie(a, G)
       \/ \E a \in ActiveUsers, m \in {1, 2}, G \in {{}, {1}, {1, 3}} :
              UpdateMovie(a, m, G)
       \/ \E a \in ActiveUsers, m \in {1, 2} : DeleteMovie(a, m)
       \/ \E a \in ActiveUsers : CreateGenre(a)
       \/ \E a \in ActiveUsers, g \in Genres : UpdateGenre(a, g)
       \/ \E a \in ActiveUsers, g \in Genres : DeleteGenre(a, g)
       \/ \E valid \in BOOLEAN : CreateUser(valid)
       \/ \E a \in ActiveUsers, u \in SeedUsers(NumUsers) \cup {1} : UpdateUser(a, u)
       \/ \E a \in ActiveUsers, u \in SeedUsers(NumUsers) \cup {1} : DeleteUser(a, u)

SpecAdmin == Init /\ [][NextAdmin]_vars

(* A catalog of more movies than the budget: movie 1 in both genres, the
   others alternating between them, movies 3, 11 and 19 tied at score 0 and
   the others at scores of their own; the requests of user 1 on the first
   movies, with the page sizes that tell 10, 20 and 50 apart. *)
CatalogUsers == users \cap {1}

NextCatalog ==
    /\ nops < MaxOps
    /\ \/ \E u \in CatalogUsers, m \in ActiveMovies, s \in ScoreInputs : Rate(u, m, s)
       \/ \E u \in CatalogUsers, m \in ActiveMovies : Watch(u, m)
       \/ \E u \in CatalogUsers, m \in ActiveMovies : Unwatch(u, m)
       \/ \E u \in CatalogUsers, m \in ActiveMovies, s \in ScoreInputs :
              UpdateRating(u, u, m, s)
       \/ \E u \in CatalogUsers, m \in ActiveMovies : DeleteRating(u, u, m)
       \/ \E u \in CatalogUsers, m \in ActiveMovies : DestroyWatchHistory(u, u, m)
       \/ \E u \in CatalogUsers :
             \E tie \in StatementOrders(u) :
                 \E page \in {1, 2}, ps \in {0, 50} :
                     Recommended(u, page, ps, tie)

SpecCatalog ==
    /\ \E seed \in {SeededCatalog((1..LargeCatalog) \ {3, 11, 19})} :
           InitTables(2 + (LargeCatalog \div 6),
                      [m \in 1..LargeCatalog |->
                          IF m = 1 THEN {1, 2} ELSE IF m % 2 = 0 THEN {1} ELSE {2}],
                      seed.ratings, seed.history)
    /\ [][NextCatalog]_vars

(* The caches over time: a database whose seeded events are 20 days old,
   first pages of the default size, the clock advancing. *)
TimeScoreInputs == {2, 4}

NextTime ==
    \/ Tick
    \/ /\ nops < MaxOps
       /\ \/ \E u \in ActiveUsers, m \in RowMovies, s \in TimeScoreInputs : Rate(u, m, s)
          \/ \E u \in ActiveUsers, m \in RowMovies : Watch(u, m)
          \/ \E u \in ActiveUsers, m \in RowMovies : Unwatch(u, m)
          \/ \E u \in ActiveUsers, m \in RowMovies, s \in TimeScoreInputs :
                 UpdateRating(u, u, m, s)
          \/ \E u \in ActiveUsers, m \in RowMovies : DeleteRating(u, u, m)
          \/ \E u \in ActiveUsers, m \in RowMovies : DestroyWatchHistory(u, u, m)
          \/ \E u \in ActiveUsers :
                 \E tie \in StatementOrders(u) :
                     Recommended(u, 1, 0, tie)
          \/ \E tie \in PopularityOrders(movie, DOMAIN movie) : Popular(1, 0, tie)
          \/ \E days \in {NoParam, Param(<<49, 48>>)} :
             \E tie \in TrendingOrders(movie, rating, history,
                                       now - TrendingDays(days) * DaySeconds,
                                       Cardinality(users)) :
                 Trending(days, 1, 0, tie)

SpecTime ==
    /\ InitTables(NumUsers, [m \in 1..NumMovies |-> GenresOfCatalog(m)],
                  SeedRatings(NumUsers, 0 - 20 * DaySeconds),
                  SeedHistory(NumUsers, 0 - 20 * DaySeconds))
    /\ [][NextTime]_vars

(* Concurrent rating requests on movie 1: the seeded database with a rating
   of user 2 next to the seeded ones, the workers serving the rate, update
   and delete requests of the first users. *)
InitConc ==
    InitTables(NumUsers, [m \in 1..NumMovies |-> GenresOfCatalog(m)],
               SeedRatings(NumUsers, 0) \cup {RatingRow(2, 1, 3, 0)},
               SeedHistory(NumUsers, 0) \cup {HistoryRow(2, 1, 0)})

ConcMovies == DOMAIN movie \cap {1}
ConcScoreInputs == {2, 5}

NextConc ==
    \/ \E w \in Workers, u \in ActiveUsers, m \in ConcMovies, s \in ConcScoreInputs :
           RateBegin(w, u, m, s)
    \/ \E w \in Workers, u \in ActiveUsers, m \in ConcMovies, s \in ConcScoreInputs :
           RatingBegin(w, "update_rating", u, u, m, s)
    \/ \E w \in Workers, u \in ActiveUsers, m \in ConcMovies :
           RatingBegin(w, "delete_rating", u, u, m, 0)
    \/ \E w \in Workers :
           \/ RateCheck(w)
           \/ RatingWrite(w)
           \/ RatingInsert(w)
           \/ LoadMovie(w)
           \/ AggregateRatings(w)
           \/ SaveMovie(w)
           \/ InvalidateStep(w)
           \/ Commit(w)
           \/ HistoryExists(w)
           \/ HistoryCreate(w)
           \/ CountHistory(w)

SpecConc == InitConc /\ [][NextConc]_vars

(* Requests while the cache server is down or up: the first users on the
   first movies, first pages of the default size. *)
NextFault ==
    \/ CacheFails
    \/ CacheRecovers
    \/ /\ nops < MaxOps
       /\ \/ \E u \in ActiveUsers, m \in RowMovies, s \in FaultScoreInputs : Rate(u, m, s)
          \/ \E u \in ActiveUsers, m \in RowMovies : Watch(u, m)
          \/ \E u \in ActiveUsers, m \in RowMovies : Unwatch(u, m)
          \/ \E u \in ActiveUsers, m \in RowMovies, s \in FaultScoreInputs :
                 UpdateRating(u, u, m, s)
          \/ \E u \in ActiveUsers, m \in RowMovies : DeleteRating(u, u, m)
          \/ \E u \in ActiveUsers :
                 \E tie \in StatementOrders(u) :
                     Recommended(u, 1, 0, tie)
          \/ \E a \in staff, m \in RowMovies : DeleteMovie(a, m)
          \/ \E a \in staff, u \in SeedUsers(NumUsers) : DeleteUser(a, u)

SpecFault == Init /\ [][NextFault]_vars

(* A database holding a rating that did not come through RatingSerializer:
   Rating.score is a plain IntegerField, so a row written by the admin site,
   a fixture or an import can hold any integer.  The last seeded user rated
   movie 2 with LegacyScore; the aggregates are the ones the signal handlers
   stored for these rows. *)
LegacyScore == 9

SpecLegacy ==
    /\ InitTables(NumUsers, [m \in 1..NumMovies |-> GenresOfCatalog(m)],
                  SeedRatings(NumUsers, 0) \cup {RatingRow(NumUsers, 2, LegacyScore, 0)},
                  SeedHistory(NumUsers, 0))
    /\ [][Next]_vars

(* each days parameter explored, as code points, with the number of days
   the window is to have for it: 10, "10 ", "1_2", "1__2", 12 in
   Arabic-Indic and fullwidth digits behind a no-break space, 10 behind an em
   space, 12 in Devanagari digits, 10 behind the separator U+001C, 7, 30, 3,
   45, -8, 7.5, abc, the empty text and no parameter *)
TrendingRequests ==
    {[days |-> Param(<<49, 48>>), window |-> 10],
     [days |-> Param(<<49, 48, 32>>), window |-> 10],
     [days |-> Param(<<49, 95, 50>>), window |-> 12],
     [days |-> Param(<<49, 95, 95, 50>>), window |-> 30],
     [days |-> Param(<<160, 1633, 65298>>), window |-> 12],
     [days |-> Param(<<8195, 49, 48>>), window |-> 10],
     [days |-> Param(<<2407, 2408>>), window |-> 12],
     [days |-> Param(<<28, 49, 48>>), window |-> 30],
     [days |-> Param(<<55>>), window |-> 7],
     [days |-> Param(<<51, 48>>), window |-> 30],
     [days |-> Param(<<51>>), window |-> 30],
     [days |-> Param(<<52, 53>>), window |-> 30],
     [days |-> Param(<<45, 56>>), window |-> 30],
     [days |-> Param(<<55, 46, 53>>), window |-> 30],
     [days |-> Param(<<97, 98, 99>>), window |-> 30],
     [days |-> Param(<< >>), window |-> 30],
     [days |-> NoParam, window |-> 30]}

TrendingMovies == DOMAIN movie \cap {2}

NextTrending ==
    \/ Tick
    \/ /\ nops < MaxTrendingOps
       /\ \/ \E u \in CatalogUsers, m \in TrendingMovies, s \in TimeScoreInputs :
                 Rate(u, m, s)
          \/ \E u \in CatalogUsers, m \in TrendingMovies : Watch(u, m)
          \/ \E q \in TrendingRequests :
             \E tie \in TrendingOrders(movie, rating, history,
                                       now - TrendingDays(q.days) * DaySeconds,
                                       Cardinality(users)) :
                 Trending(q.days, 1, 0, tie)

(* Trending over events of different ages: the seeded users rated and
   watched movie 1 seven days ago, the last of them watched movie 2 ten,
   movie 3 thirty and movie 4 thirty-one days ago; the first user rates and
   watches, the clock advances. *)
SpecTrending ==
    /\ InitTables(NumUsers, [m \in 1..NumMovies |-> GenresOfCatalog(m)],
                  SeedRatings(NumUsers, 0 - 7 * DaySeconds),
                  {HistoryRow(u, 1, 0 - 7 * DaySeconds) : u \in SeedUsers(NumUsers)}
                      \cup {HistoryRow(NumUsers, 2, 0 - 10 * DaySeconds),
                            HistoryRow(NumUsers, 3, 0 - 30 * DaySeconds),
                            HistoryRow(NumUsers, 4, 0 - 31 * DaySeconds)})
    /\ [][NextTrending]_vars

(* The recommendation cache of a user who has watched every movie but the
   first: the user watches, rates and asks for recommendations while the
   clock advances.  Movie 4 belongs to no genre. *)
TtlMovies == DOMAIN movie \cap {1, 4}

NextTtl ==
    \/ Tick
    \/ /\ nops < MaxOps
       /\ \/ \E u \in CatalogUsers, m \in TtlMovies, s \in FaultScoreInputs : Rate(u, m, s)
          \/ \E u \in CatalogUsers, m \in TtlMovies : Watch(u, m)
          \/ \E u \in CatalogUsers, m \in TtlMovies : Unwatch(u, m)
          \/ \E u \in CatalogUsers, m \in TtlMovies : DeleteRating(u, u, m)
          \/ \E u \in CatalogUsers :
                 \E tie \in StatementOrders(u) :
                     Recommended(u, 1, 0, tie)

SpecTtl ==
    /\ InitTables(NumUsers, [m \in 1..NumMovies |-> GenresOfCatalog(m)],
                  SeedRatings(NumUsers, 0),
                  SeedHistory(NumUsers, 0) \cup {HistoryRow(1, m, 0) : m \in 2..NumMovies})
    /\ [][NextTtl]_vars

(* The per-genre selection on a catalog larger than the budget: movie 1 in
   both genres, movie 2 in none, movies 3 to 5 in genre 2 (Drama), the others
   in genre 1 (Action); movies 1, 4 and 5 tied at score 0 and the others at
   scores of their own.  User 1 starts with no rating, or with 5 liked Action
   movies and 1 liked Drama movie, or with so many liked Action movies that
   the share of Drama is below one twentieth; the user then rates, re-rates
   and asks for recommendations. *)
PlanMovies == DOMAIN movie \cap {1, 2, 4, 11}

NextPlan ==
    /\ nops < MaxPlanOps
    /\ \/ \E u \in CatalogUsers, m \in PlanMovies, s \in TimeScoreInputs : Rate(u, m, s)
       \/ \E u \in CatalogUsers, m \in PlanMovies, s \in TimeScoreInputs :
              UpdateRating(u, u, m, s)
       \/ \E u \in CatalogUsers, m \in PlanMovies : DeleteRating(u, u, m)
       \/ \E u \in CatalogUsers :
             \E tie \in StatementOrders(u) :
                 \E ps \in {50} :
                     Recommended(u, 1, ps, tie)

SpecPlan ==
    /\ \E likes \in {{}, ({3} \cup (6..10)), ({3} \cup (6..(PlanCatalog - 3)))},
          seed \in {SeededCatalog((1..PlanCatalog) \ {1, 4, 5})} :
           InitTables(2 + (PlanCatalog \div 6),
                      [m \in 1..PlanCatalog |->
                          IF m = 1 THEN {1, 2} ELSE IF m = 2 THEN {} ELSE IF m <= 5 THEN {2} ELSE {1}],
                      seed.ratings \cup {RatingRow(1, m, 4, 0) : m \in likes},
                      seed.history \cup {HistoryRow(1, m, 0) : m \in likes})
    /\ [][NextPlan]_vars

(* A rate and an unwatch request of user 1 for movie 1, which the user has
   watched but not rated, served by different workers. *)
NextUnwatch ==
    \/ \E w \in Workers, u \in CatalogUsers, m \in ConcMovies, s \in ScoreInputs :
           RateBegin(w, u, m, s)
    \/ \E w \in Workers, u \in CatalogUsers, m \in ConcMovies : UnwatchBegin(w, u, m)
    \/ \E w \in Workers :
           \/ RateCheck(w)
           \/ RatingWrite(w)
           \/ AggregateRatings(w)
           \/ LoadMovie(w)
           \/ SaveMovie(w)
           \/ InvalidateStep(w)
           \/ Commit(w)
           \/ HistoryExists(w)
           \/ HistoryCreate(w)
           \/ CountHistory(w)
           \/ UnwatchCheck(w)
           \/ HistoryDelete(w)

SpecUnwatch ==
    /\ InitTables(NumUsers, [m \in 1..NumMovies |-> GenresOfCatalog(m)],
                  SeedRatings(NumUsers, 0),
                  SeedHistory(NumUsers, 0) \cup {HistoryRow(1, 1, 0)})
    /\ [][NextUnwatch]_vars

(* The two signal handlers on the same movie: user 1 marks movie 1 as
   watched while user 2 changes or deletes their rating of it, and the cache
   server may stop answering in between. *)
RaterUsers == users \cap {2}

NextHandlers ==
    \/ CacheFails
    \/ CacheRecovers
    \/ \E w \in Workers, u \in CatalogUsers, m \in ConcMovies : WatchBegin(w, u, m)
    \/ \E w \in Workers, u \in RaterUsers, m \in ConcMovies, s \in ConcScoreInputs :
           RatingBegin(w, "update_rating", u, u, m, s)
    \/ \E w \in Workers, u \in RaterUsers, m \in ConcMovies :
           RatingBegin(w, "delete_rating", u, u, m, 0)
    \/ \E w \in Workers :
           \/ WatchCheck(w)
           \/ HistoryCreate(w)
           \/ CountHistory(w)
           \/ RatingWrite(w)
           \/ RatingInsert(w)
           \/ LoadMovie(w)
           \/ AggregateRatings(w)
           \/ SaveMovie(w)
           \/ InvalidateStep(w)
           \/ Commit(w)

SpecHandlers == InitConc /\ [][NextHandlers]_vars

(* A recommended request of user 1 (first page, default size) next to a
   watch or rate request of the same user, served by different workers. *)
NextStale ==
    \/ \E w \in Workers, u \in CatalogUsers : RecBegin(w, u, 1, 0)
    \/ \E w \in Workers, u \in CatalogUsers, m \in RowMovies : WatchBegin(w, u, m)
    \/ \E w \in Workers, u \in CatalogUsers, m \in RowMovies, s \in FaultScoreInputs :
           RateBegin(w, u, m, s)
    \/ \E w \in Workers :
           \/ RecLiked(w)
           \/ RecGenres(w)
           \/ \E tie \in ListOrders(inflight[w]) : RecCount(w, tie)
           \/ \E tie \in ListOrders(inflight[w]) : RecPage(w, tie)
           \/ RecStore(w)
           \/ WatchCheck(w)
           \/ RateCheck(w)
           \/ RatingWrite(w)
           \/ AggregateRatings(w)
           \/ HistoryExists(w)
           \/ HistoryCreate(w)
           \/ CountHistory(w)
           \/ SaveMovie(w)
           \/ InvalidateStep(w)

SpecStale == Init /\ [][NextStale]_vars

-----------------------------------------------------------------------------
(* Properties *)
Succeeded(r) == r.status \in {200, 201, 204}
RatingOps == {"rate", "update_rating", "delete_rating"}
IsRequestStep == nops' = nops + 1

(* C1: after every rating create, update and delete the average_rating stored
   on each movie is the mean of the scores of the ratings stored for it,
   rounded to 2 decimals (within half a hundredth of the mean), and 0 when
   the movie has no rating. *)
AverageRatingIsRoundedMean ==
    \A m \in DOMAIN movie :
        LET R == RatingsOfMovie(rating, m)
            n == Cardinality(R)
            total == SumOf([r \in R |-> r.score], R)
            a == movie[m].average_rating
        IN  IF n = 0 THEN a = 0 ELSE 2 * Abs(100 * total - a * n) <= n

(* a rating request has just changed a movie whose mean is not a whole
   number of hundredths *)
AverageRatingRounded ==
    /\ resp.op \in RatingOps /\ Succeeded(resp)
    /\ LET R == RatingsOfMovie(rating, resp.movie)
       IN  /\ Cardinality(R) >= 3
           /\ (100 * SumOf([r \in R |-> r.score], R)) % Cardinality(R) # 0

(* C2: after every rate, watch, unwatch, rating update and rating delete the
   watch_count stored on each movie is the number of watch-history rows
   stored for it; a rating delete therefore leaves it as it was. *)
WatchCountIsHistoryCount ==
    \A m \in DOMAIN movie :
        movie[m].watch_count = Cardinality({h \in history : h.movie = m})

(* a rating was deleted and its movie is still counted as watched *)
RatingDeletedStillWatched ==
    /\ resp.op = "delete_rating" /\ resp.status = 204
    /\ movie[resp.movie].watch_count >= 3
    /\ HistoryOf(history, resp.owner, resp.movie) # {}

(* C3: rated implies watched: every (user, movie) pair with a rating has a
   watch-history row. *)
RatedImpliesWatched ==
    \A r \in rating : \E h \in history : h.user = r.user /\ h.movie = r.movie

(* a rate request has just stored a rating, next to the watch event of the pair *)
RatedAndWatched ==
    /\ resp.op = "rate" /\ resp.status = 201
    /\ RatingsOf(rating, resp.user, resp.movie) # {}
    /\ HistoryOf(history, resp.user, resp.movie) # {}

(* C4: unwatch(user, movie) while the user's rating of the movie exists is
   rejected and leaves the watch-history, the movie's watch_count and the
   cache unchanged; once the rating is gone, unwatch succeeds and removes
   the watch-history row of the pair and no other. *)
UnwatchRejectedWhileRated ==
    [][\A u \in users, m \in DOMAIN movie :
          (IsRequestStep /\ resp'.op = "unwatch" /\ resp'.user = u /\ resp'.movie = m
              /\ HistoryOf(history, u, m) # {})
          => IF RatingsOf(rating, u, m) # {}
             THEN /\ resp'.status = 400
                  /\ history' = history
                  /\ movie'[m].watch_count = movie[m].watch_count
                  /\ cache' = cache
             ELSE /\ resp'.status = 204
                  /\ history' = history \ HistoryOf(history, u, m)
                  /\ HistoryOf(history', u, m) = {}]_vars

(* an unwatch was refused for a user who holds a cache entry *)
UnwatchRefusedWithCacheEntry ==
    /\ resp.op = "unwatch" /\ resp.status = 400
    /\ RatingsOf(rating, resp.user, resp.movie) # {}
    /\ HistoryOf(history, resp.user, resp.movie) # {}
    /\ \E e \in cache : e.user = resp.user

(* C5: no response of recommended, computed on either path or served from
   the cache, holds a movie the requesting user has a watch-history row for
   at the time of the response. *)
RecommendedExcludesWatched ==
    resp.op = "recommended" =>
        \A i \in 1..Len(resp.items) : resp.items[i].id \notin WatchedBy(history, resp.user)

(* a non-empty cached response for a user who has watched a movie *)
CachedResponseForWatcher ==
    /\ resp.op = "recommended" /\ resp.path = "cache"
    /\ Len(resp.items) > 0
    /\ WatchedBy(history, resp.user) # {}

(* C6 as stated: no response of recommended holds more than 20 movies, on
   the personalized and on the fallback path, whatever the page and page size. *)
RecommendedWithinBudget ==
    resp.op = "recommended" => Len(resp.items) <= Budget

(* C7: for a user without a rating of score >= 3, a freshly computed
   recommended result is exactly the movies the user has not watched in
   descending popularity_score: the response counts all of them and its page
   holds, at each position, a movie of that rank with its stored aggregates. *)
FallbackIsAllUnwatchedByPopularity ==
    (/\ resp.op = "recommended" /\ resp.path # "cache"
     /\ ~\E r \in rating : r.user = resp.user /\ r.score >= 3)
    => LET un == DOMAIN movie \ WatchedBy(history, resp.user)
           score == [m \in DOMAIN movie |-> 7 * movie[m].average_rating + 300 * movie[m].watch_count]
           size == get_page_size(resp.page_size)
           offset == (resp.page - 1) * size
           n == Len(resp.items)
       IN  IF resp.page > NumPages(Cardinality(un), size)
           THEN resp.status = 404
           ELSE /\ resp.status = 200
                /\ resp.count = Cardinality(un)
                /\ n = Min(size, Cardinality(un) - offset)
                /\ \A i, j \in 1..n : i # j => resp.items[i].id # resp.items[j].id
                /\ \A i \in 1..n :
                      LET it == resp.items[i]
                      IN  /\ it.id \in un
                          /\ it.average_rating = movie[it.id].average_rating
                          /\ it.watch_count = movie[it.id].watch_count
                          /\ Cardinality({m \in un : score[m] > score[it.id]}) < offset + i
                          /\ offset + i <= Cardinality({m \in un : score[m] >= score[it.id]})

(* a fallback response for a user who has watched and rated below 3, holding
   movies of different popularity *)
FallbackForUserWithoutLikes ==
    /\ resp.op = "recommended" /\ resp.path = "fallback" /\ resp.status = 200
    /\ \E r \in rating : r.user = resp.user /\ r.score < 3
    /\ Len(resp.items) >= 2
    /\ calc_popularity_score(resp.items[1]) > calc_popularity_score(resp.items[2])

(* the item carries the aggregates the movie row holds now *)
IsCurrent(item) ==
    /\ item.average_rating = movie[item.id].average_rating
    /\ item.watch_count = movie[item.id].watch_count

(* C8: a recommended request repeating the user's previous one within the
   ttl, with no rating or watch mutation by that user in between, is served
   from the cache and returns the output of the previous response: its
   status, the form of its body, its count and its movie list, whatever
   other users did meanwhile; the first request after a mutation by the user
   is not served from the cache and lists current data. *)
RepeatedRecommendedIsIdentical ==
    [][\A u \in users :
          (IsRequestStep /\ resp'.op = "recommended" /\ resp'.user = u)
          => /\ (/\ lastRec[u].state = "called"
                 /\ lastRec[u].page = resp'.page
                 /\ lastRec[u].page_size = resp'.page_size
                 /\ now < lastRec[u].until)
                => /\ resp'.path = "cache"
                   /\ resp'.status = lastRec[u].status
                   /\ resp'.body = lastRec[u].body
                   /\ resp'.count = lastRec[u].count
                   /\ resp'.items = lastRec[u].items
             /\ lastRec[u].state = "mutated"
                => /\ resp'.path # "cache"
                   /\ \A i \in 1..Len(resp'.items) :
                         /\ IsCurrent(resp'.items[i])
                         /\ resp'.items[i].id \notin WatchedBy(history, u)]_vars

(* C9: a step that changes the ratings or the watch history of a user leaves
   no recommendation cache entry for that user and leaves the entries of all
   other users as they were. *)
MutationInvalidatesOwnerOnly ==
    [][\A u \in users :
          (\/ {r \in rating' : r.user = u} # {r \in rating : r.user = u}
           \/ {h \in history' : h.user = u} # {h \in history : h.user = u})
          => /\ ~\E e \in cache' : e.user = u
             /\ {e \in cache' : e.user # u} = {e \in cache : e.user # u}]_vars

(* a member of staff deleted another user's rating and still has an entry of
   their own *)
StaffDeleteKeepsOwnEntry ==
    /\ resp.op = "delete_rating" /\ resp.status = 204
    /\ resp.user # resp.owner
    /\ \E e \in cache : e.user = resp.user
    /\ ~\E e \in cache : e.user = resp.owner

(* C10 as stated: popular and trending are not cached, every response lists
   the aggregates stored at the time of the request. *)
PopularTrendingReflectStoredAggregates ==
    resp.op \in {"popular", "trending"} =>
        \A i \in 1..Len(resp.items) : IsCurrent(resp.items[i])

(* C10, amended: popular and trending are cached per request URL by
   cache_page, for 15 and 30 minutes, and no mutation invalidates the entry:
   a read that finds an unexpired entry of its URL returns the stored
   response, also after a mutation; only a read that finds none is computed
   against the aggregates stored at the time of the request, and its
   response is stored for the ttl of the view. *)
PopularTrendingCachedPerUrl ==
    [][(IsRequestStep /\ resp'.op \in {"popular", "trending"})
       => LET view == resp'.op
              query == <<resp'.days, resp'.page, resp'.page_size>>
              ttl == IF view = "popular" THEN 15 * 60 ELSE 30 * 60
              stored == {e \in pagecache :
                            e.view = view /\ e.query = query /\ now < e.expires}
          IN  IF stored # {}
              THEN /\ \A e \in stored : /\ resp'.items = e.body.items
                                        /\ resp'.status = e.body.status
                                        /\ resp'.count = e.body.count
                   /\ pagecache' = pagecache
              ELSE resp'.status = 200
                   => /\ \A i \in 1..Len(resp'.items) : IsCurrent(resp'.items[i])
                      /\ \E e \in pagecache' :
                            /\ e.view = view /\ e.query = query
                            /\ e.expires = now + ttl
                            /\ e.body.items = resp'.items]_vars

(* a popular response served from the page cache that lists an aggregate a
   later mutation has changed *)
StalePopularResponse ==
    /\ resp.op = "popular" /\ resp.path = "cache"
    /\ \E i \in 1..Len(resp.items) : ~IsCurrent(resp.items[i])

Quiescent == \A w \in Workers : ~InFlight(w)

(* the requests served were sent by different users *)
DifferentUsers ==
    \A v, w \in Workers :
        v # w /\ inflight[v].pc = "done" /\ inflight[w].pc = "done"
            => inflight[v].owner # inflight[w].owner

(* C11: when rating writes and deletes for the same movie by different
   users run concurrently, their steps interleaved in any order, the
   average_rating stored once all of them have finished is the rounded mean
   of the final rating set (0 without ratings). *)
FinalAverageIsRoundedMean ==
    Quiescent /\ DifferentUsers =>
        \A m \in DOMAIN movie :
            LET R == RatingsOfMovie(rating, m)
                n == Cardinality(R)
                total == SumOf([r \in R |-> r.score], R)
                a == movie[m].average_rating
            IN  IF n = 0 THEN a = 0 ELSE 2 * Abs(100 * total - a * n) <= n

MutationOps == {"rate", "watch", "unwatch", "update_rating", "delete_rating"}

(* C12: when the cache fails on get, set or delete, recommended and the
   rating / watch mutation handlers do not fail: a mutation is answered as
   with a working cache, and recommended recomputes the result and returns
   it (for a user whose result can be computed at all). *)
CacheFailureDegradesToRecompute ==
    [][(IsRequestStep /\ ~cache_up) =>
          /\ resp'.op \in MutationOps => resp'.status # 500
          /\ (/\ resp'.op = "recommended"
              /\ RecommendedPath(movie, rating, resp'.user) # "error")
             => /\ resp'.status \in {200, 404}
                /\ resp'.path \in {"fallback", "personalized"}]_vars

(* C13: when the stored ratings of a movie hold a record whose score is
   outside 1..5, the recomputation skips it: after a rating request the
   average_rating stored on its movie is the rounded mean of the in-range
   scores only, and 0 if there are none. *)
AverageSkipsOutOfRangeScores ==
    (resp.op \in RatingOps /\ Succeeded(resp)) =>
        LET R == {r \in RatingsOfMovie(rating, resp.movie) : 1 <= r.score /\ r.score <= 5}
            n == Cardinality(R)
            total == SumOf([r \in R |-> r.score], R)
            a == movie[resp.movie].average_rating
        IN  IF n = 0 THEN a = 0 ELSE 2 * Abs(100 * total - a * n) <= n

(* the movies the items of a response list *)
ItemIds(items) == {items[i].id : i \in 1..Len(items)}

(* the movies with a watch event or a rating not older than the given
   number of days *)
ActiveWithin(ndays) ==
    {m \in DOMAIN movie :
        \/ \E h \in history : h.movie = m /\ h.watched_on >= now - ndays * 86400
        \/ \E r \in rating : r.movie = m /\ r.created_at >= now - ndays * 86400}

(* C14: the time window of trending is the requested days when
   7 <= days <= 30, and 30 for every other request: days below 7, above 30,
   not an integer, or absent.  A computed response lists exactly the movies
   with an event inside that window. *)
TrendingWindowIsClamped ==
    [][(/\ IsRequestStep /\ resp'.op = "trending"
        /\ resp'.path = "computed" /\ resp'.status = 200)
       => \A q \in TrendingRequests :
             resp'.days = q.days => ItemIds(resp'.items) = ActiveWithin(q.window)]_vars

(* a request for 3 days was answered with a movie watched 30 days ago, next
   to one for 7 days answered without the movie watched 10 days ago *)
ShortWindowAnsweredWithThirtyDays ==
    /\ resp.op = "trending" /\ resp.path = "computed" /\ resp.status = 200
    /\ resp.days = Param(<<51>>)
    /\ 3 \in ItemIds(resp.items)
    /\ \E e \in pagecache :
          /\ e.view = "trending" /\ e.query[1] = Param(<<55>>)
          /\ 1 \in ItemIds(e.body.items) /\ 2 \notin ItemIds(e.body.items)

(* C15: a recommendation cache entry is served exactly when it is present
   and younger than its ttl of 10 minutes, whatever value was stored, an
   empty list included: a recommended request of a user with such an entry
   returns the stored value without recomputing, and a request of a user
   without one, or with one stored 10 minutes ago or earlier, is computed. *)
EntryServedWhilePresentAndValid ==
    [][\A u \in users :
          (IsRequestStep /\ resp'.op = "recommended" /\ resp'.user = u)
          => LET valid == {e \in cache : e.user = u /\ now < e.expires}
             IN  IF valid # {}
                 THEN /\ resp'.path = "cache"
                      /\ \A e \in valid : resp'.items = e.data
                      /\ cache' = cache
                 ELSE resp'.path # "cache"]_vars

(* a recommended response whose handler went through the loop over the liked
   genres *)
PlannedResponse ==
    resp.op = "recommended" /\ resp.path \in {"personalized", "error"}

(* C16 as stated: on the personalized path total_liked is the sum of
   liked_count over the genre entries, so the proportions sum to 1. *)
TotalLikedIsSumOfGenreCounts ==
    PlannedResponse =>
        \A p \in resp.calc :
            p.total_liked_movies =
                SumOf([q \in resp.calc |-> q.liked_movies_count], resp.calc)

(* C16, amended: on the personalized path total_liked is the number of the
   user's liked movies, while liked_count counts a liked movie once in each
   of its genres; so no proportion liked_count/total_liked exceeds 1, and
   the liked_counts sum to the number of genre memberships of the liked
   movies: the proportions sum to 1 exactly when that number is total_liked,
   as it is when every liked movie has exactly one genre, to more than 1
   when it is larger and to less than 1 when it is smaller. *)
TotalLikedIsLikedMovieCount ==
    PlannedResponse =>
        LET liked == {r.movie : r \in {x \in rating : x.user = resp.user /\ x.score >= 3}}
            sum == SumOf([q \in resp.calc |-> q.liked_movies_count], resp.calc)
            memberships == SumOf([m \in liked |-> Cardinality(movie[m].genres)], liked)
        IN  /\ \A p \in resp.calc :
                  /\ p.total_liked_movies = Cardinality(liked)
                  /\ p.liked_movies_count =
                         Cardinality({m \in liked : p.genre \in movie[m].genres})
                  /\ 1 <= p.liked_movies_count
                  /\ p.liked_movies_count <= p.total_liked_movies
                  /\ (sum = p.total_liked_movies) <=> (memberships = Cardinality(liked))
                  /\ (sum > p.total_liked_movies) <=> (memberships > Cardinality(liked))
                  /\ (sum < p.total_liked_movies) <=> (memberships < Cardinality(liked))
            /\ sum = memberships
            /\ (\A m \in liked : Cardinality(movie[m].genres) = 1) => sum = Cardinality(liked)

(* a personalized response for a user who likes a movie of two genres and a
   movie of none: a liked movie has several genres and the liked_counts sum
   to total_liked all the same *)
SeveralGenresAndSumIsTotalLiked ==
    /\ resp.op = "recommended" /\ resp.path = "personalized" /\ resp.status = 200
    /\ \E r \in rating : /\ r.user = resp.user /\ r.score >= 3
                          /\ Cardinality(movie[r.movie].genres) > 1
    /\ \E p \in resp.calc :
          SumOf([q \in resp.calc |-> q.liked_movies_count], resp.calc)
              = p.total_liked_movies

(* C17: for every genre holding a liked movie of the user, the movies picked
   from the genre are unwatched movies of the genre and their number is
   min(unwatched movies of the genre, max(1, floor(20 * liked_count /
   total_liked))), total_liked being the number of liked movies; so a genre
   with an unwatched movie contributes at least one; with 5 liked Action and
   1 liked Drama movie the numbers to pick are 16 and 3. *)
PicksPerGenre ==
    PlannedResponse =>
        LET liked == {r.movie : r \in {x \in rating : x.user = resp.user /\ x.score >= 3}}
            total == Cardinality(liked)
            unwatched == DOMAIN movie \ {h.movie : h \in {x \in history : x.user = resp.user}}
        IN  /\ {p.genre : p \in resp.calc} = UNION {movie[m].genres : m \in liked}
            /\ \A p, q \in resp.calc : p.genre = q.genre => p = q
            /\ \A p \in resp.calc :
                  LET count == Cardinality({m \in liked : p.genre \in movie[m].genres})
                      avail == {m \in unwatched : p.genre \in movie[m].genres}
                      share == (20 * count) \div total
                      wanted == IF share >= 1 THEN share ELSE 1
                  IN  /\ p.num_to_pick = wanted
                      /\ p.picked \subseteq avail
                      /\ Cardinality(p.picked) =
                             (IF Cardinality(avail) <= wanted THEN Cardinality(avail)
                              ELSE wanted)
                      /\ avail # {} => p.picked # {}
                      /\ (count = 5 /\ total = 6) => p.num_to_pick = 16
                      /\ (count = 1 /\ total = 6) => p.num_to_pick = 3

(* the personalized response for 5 liked Action movies and 1 liked Drama
   movie: 16 movies picked from Action and 3 from Drama *)
SixteenActionAndThreeDrama ==
    /\ resp.op = "recommended" /\ resp.path = "personalized" /\ resp.status = 200
    /\ \E p, q \in resp.calc :
          /\ p.liked_movies_count = 5 /\ q.liked_movies_count = 1
          /\ p.total_liked_movies = 6
          /\ Cardinality(p.picked) = 16 /\ Cardinality(q.picked) = 3

(* C18: the personalized output is the union of the per-genre selections,
   each movie once, in descending popularity_score with equal scores in
   ascending movie id, cut to the first 20: position i of the response holds
   the movie of the union that exactly i - 1 others precede in that order. *)
PersonalizedOutputIsDetermined ==
    (PlannedResponse /\ resp.page = 1 /\ get_page_size(resp.page_size) >= Budget) =>
        LET union == UNION {p.picked : p \in resp.calc}
            score == [m \in DOMAIN movie |->
                         7 * movie[m].average_rating + 300 * movie[m].watch_count]
            before(m) == {x \in union : \/ score[x] > score[m]
                                         \/ (score[x] = score[m] /\ x < m)}
            n == Len(resp.items)
        IN  /\ resp.status = 200
            /\ n = (IF Cardinality(union) <= 20 THEN Cardinality(union) ELSE 20)
            /\ \A i \in 1..n :
                  /\ resp.items[i].id \in union
                  /\ Cardinality(before(resp.items[i].id)) = i - 1

(* C19: whenever no genre holds a liked movie of the user, also when the
   user has liked movies that belong to no genre, a computed recommended
   response is the fallback list: the first page of all the movies the user
   has not watched, by descending popularity_score. *)
EmptyAffinityGivesFallback ==
    (/\ resp.op = "recommended" /\ resp.path # "cache"
     /\ resp.page = 1
     /\ UNION {movie[r.movie].genres :
                 r \in {x \in rating : x.user = resp.user /\ x.score >= 3}} = {})
    => LET un == DOMAIN movie \ {h.movie : h \in {x \in history : x.user = resp.user}}
           score == [m \in DOMAIN movie |->
                        7 * movie[m].average_rating + 300 * movie[m].watch_count]
           size == get_page_size(resp.page_size)
           n == Len(resp.items)
       IN  /\ resp.status = 200
           /\ resp.path = "fallback"
           /\ resp.count = Cardinality(un)
           /\ n = (IF Cardinality(un) <= size THEN Cardinality(un) ELSE size)
           /\ \A i \in 1..n :
                 /\ resp.items[i].id \in un
                 /\ Cardinality({m \in un : score[m] > score[resp.items[i].id]}) < i
                 /\ i <= Cardinality({m \in un : score[m] >= score[resp.items[i].id]})

(* C20: in a computed trending response, for every movie the windowed watch
   count is the number of its watch events inside the window, however many
   ratings it has, the windowed average is the mean of the scores of its
   ratings created inside the window (0 without one), the movie is listed
   exactly when one of the two is positive, and trending_score is
   0.6 * average + 0.4 * count (all held times 10 * scale, scale a common
   multiple of the possible numbers of ratings). *)
TrendingAnnotationsAreWindowed ==
    [][(/\ IsRequestStep /\ resp'.op = "trending"
        /\ resp'.path = "computed" /\ resp'.status = 200)
       => \A q \in TrendingRequests :
             resp'.days = q.days =>
                LET since == now - q.window * 86400
                    scale == Factorial(Cardinality(users))
                IN  /\ {a.id : a \in resp'.calc} = DOMAIN movie
                    /\ \A a \in resp'.calc :
                          LET count == Cardinality({h \in history :
                                           h.movie = a.id /\ h.watched_on >= since})
                              R == {r \in rating : r.movie = a.id /\ r.created_at >= since}
                              avg == IF R = {} THEN 0
                                     ELSE (SumOf([r \in R |-> r.score], R) * scale)
                                              \div Cardinality(R)
                          IN  /\ a.recent_watch_count = count
                              /\ a.recent_avg_rating = avg
                              /\ a.trending_score = 6 * avg + 4 * scale * count
                              /\ (a.id \in ItemIds(resp'.items))
                                     <=> (count > 0 \/ avg > 0)]_vars

(* C23: a recommended request served from the cache returns the list an
   uncached computation for the requested page and page size returns in the
   same stored state (for one of the orders of equal scores), also when the
   entry was stored by a request for another page or page size. *)
CachedPageIsRequestedPage ==
    [][(IsRequestStep /\ resp'.op = "recommended" /\ resp'.path = "cache")
       => \E tie \in RecommendedOrders(movie, rating, history, resp'.user) :
             \E pg \in {paginate_queryset(
                            RecommendedList(movie, rating, history, resp'.user, tie),
                            resp'.page, resp'.page_size)} :
                 /\ pg.ok
                 /\ resp'.status = 200
                 /\ resp'.items = SerializeMany(movie, pg.results)]_vars

(* C22: when a rate and an unwatch request of the same user for the same
   movie, watched but not rated, run with their steps interleaved, no rating
   is left without a watch-history entry once both have finished. *)
RatedImpliesWatchedAfterRace ==
    Quiescent =>
        \A r \in rating : \E h \in history : h.user = r.user /\ h.movie = r.movie

(* C24: when the rating-change handler and the watch-change handler run
   concurrently for the same movie, each saving the row it loaded, neither
   overwrites the field the other has just written: once both have finished
   the movie's watch_count is the number of its watch events and its
   average_rating the rounded mean of its ratings. *)
HandlersKeepEachOthersField ==
    Quiescent =>
        \A m \in DOMAIN movie :
            /\ movie[m].watch_count = Cardinality({h \in history : h.movie = m})
            /\ LET R == {r \in rating : r.movie = m}
                   n == Cardinality(R)
                   total == SumOf([r \in R |-> r.score], R)
               IN  IF n = 0 THEN movie[m].average_rating = 0
                   ELSE 2 * Abs(100 * total - movie[m].average_rating * n) <= n

(* C21: when a recommended computation of a user is interleaved with a
   rating or watch request of the same user, then once both have finished
   the user's cache entry is absent or holds the result of the state after
   the mutation (the first page computed from the stored rows, for one of
   the orders of equal scores), so it lists no movie the user has watched. *)
NoStaleEntryAfterMutation ==
    Quiescent =>
        \A e \in cache :
            /\ \A i \in 1..Len(e.data) : e.data[i].id \notin WatchedBy(history, e.user)
            /\ \E tie \in RecommendedOrders(movie, rating, history, e.user) :
                  e.data = SerializeMany(movie,
                               paginate_queryset(
                                   RecommendedList(movie, rating, history, e.user, tie),
                                   1, 0).results)

=============================================================================
